---------------------------- MODULE Spec2Model ----------------------------
(***************************************************************************)
(* Model of the retrieval-augmented metric extraction pipeline:            *)
(*   src/src/lib/ai-processor.ts        (model manager, embedding index,   *)
(*                                       retrieval, QA, parsing, evidence, *)
(*                                       extractAllMetrics)                *)
(*   src/src/lib/document-processor.ts  (chunkText, normalizeText,         *)
(*                                       processDocument)                  *)
(*   src/src/components/DocumentUpload.tsx (processFiles, DocumentUpload)  *)
(*                                                                         *)
(* Strings are sequences of one-character strings.  A similarity is kept   *)
(* exactly, as the triple (dot, normA, normB) standing for                 *)
(* dot / (sqrt(normA) * sqrt(normB)).  QA scores are integers in percent  *)
(* (0..100); a progress value is kept as the exact fraction num / den.     *)
(***************************************************************************)
EXTENDS Integers, Sequences, FiniteSets, TLC

(***************************************************************************)
(* Bounds of the model                                                     *)
(***************************************************************************)
MaxChunks == 3
MaxMetrics == 2
MaxRuns == 3
MaxIndex == 3
MaxFiles == 2
MaxTokens == 3
MaxCallers == 2
MaxCalls == 2
MaxDocs == 3

(***************************************************************************)
(* Values of the JavaScript runtime                                        *)
(***************************************************************************)
\* new Error(msg), or a thrown value that is not an Error instance
ErrorOf(msg) == [isError |-> TRUE, message |-> msg]
NonError == [isError |-> FALSE, message |-> "thrown value"]

Min(a, b) == IF a <= b THEN a ELSE b
Max(a, b) == IF a >= b THEN a ELSE b

(***************************************************************************)
(* Strings                                                                 *)
(***************************************************************************)
Whitespace == {" ", "\n", "\t"}
Digits == {"0", "1", "2", "3", "4", "5", "6", "7", "8", "9"}
LowerCase == <<"a", "b", "c", "d", "e", "f", "g", "h", "i", "j", "k", "l", "m",
               "n", "o", "p", "q", "r", "s", "t", "u", "v", "w", "x", "y", "z">>
UpperCase == <<"A", "B", "C", "D", "E", "F", "G", "H", "I", "J", "K", "L", "M",
               "N", "O", "P", "Q", "R", "S", "T", "U", "V", "W", "X", "Y", "Z">>
Range(s) == {s[k] : k \in DOMAIN s}
Letters == Range(LowerCase) \cup Range(UpperCase)

\* String.prototype.slice(from, to) with 0 <= from, to (0-based, end exclusive)
Slice(s, from, to) ==
    LET t == Min(to, Len(s))
    IN  IF from >= t THEN <<>> ELSE [k \in 1..(t - from) |-> s[from + k]]

\* number of leading / trailing whitespace characters
LeadWs(s) ==
    LET solid == {k \in DOMAIN s : s[k] \notin Whitespace}
    IN  IF solid = {} THEN Len(s) ELSE (CHOOSE k \in solid : \A j \in solid : k <= j) - 1
TrailWs(s) ==
    LET solid == {k \in DOMAIN s : s[k] \notin Whitespace}
    IN  IF solid = {} THEN Len(s) ELSE Len(s) - (CHOOSE k \in solid : \A j \in solid : j <= k)

\* String.prototype.trim()
Trim(s) == IF LeadWs(s) = Len(s) THEN <<>> ELSE Slice(s, LeadWs(s), Len(s) - TrailWs(s))

\* String.prototype.toLowerCase() on one character
ToLower(c) ==
    IF c \in Range(UpperCase)
    THEN LowerCase[CHOOSE k \in DOMAIN UpperCase : UpperCase[k] = c]
    ELSE c

\* String.prototype.includes(needle)
Includes(s, needle) ==
    \E from \in 0..(Len(s) - Len(needle)) : Slice(s, from, from + Len(needle)) = needle

\* Array.prototype.join(sep)
RECURSIVE Join(_, _)
Join(parts, sep) ==
    IF parts = <<>> THEN <<>>
    ELSE IF Len(parts) = 1 THEN parts[1]
    ELSE parts[1] \o sep \o Join(Tail(parts), sep)


\* a?.b style optional values: <<>> is undefined, <<x>> is the value x
None == <<>>
Some(x) == <<x>>

(***************************************************************************)
(* Embedding index: cosineSimilarity, findRelevantChunks                   *)
(***************************************************************************)
RECURSIVE SumOver(_, _, _)
SumOver(a, b, k) == IF k = 0 THEN 0 ELSE a[k] * b[k] + SumOver(a, b, k - 1)

\* cosineSimilarity(a, b): throws on a length mismatch, else the exact triple
\* for dotProduct / (Math.sqrt(normA) * Math.sqrt(normB))
cosineSimilarity(a, b) ==
    IF Len(a) # Len(b)
    THEN [ok |-> FALSE, error |-> ErrorOf("Vectors must have the same length")]
    ELSE [ok |-> TRUE,
          value |-> [dot |-> SumOver(a, b, Len(a)),
                     normA |-> SumOver(a, a, Len(a)),
                     normB |-> SumOver(b, b, Len(b))]]

\* 0 / 0 is NaN
IsNaN(s) == s.normA * s.normB = 0
\* sign(d) * d^2 * n: orders d / sqrt(m) against d' / sqrt(n) without roots
SignedSq(d, n) == IF d >= 0 THEN d * d * n ELSE 0 - d * d * n

\* the sign of (x - y) for two similarities; NaN counts as 0 in a comparator
SimDiffSign(x, y) ==
    IF IsNaN(x) \/ IsNaN(y) THEN 0
    ELSE LET l == SignedSq(x.dot, y.normA * y.normB)
             r == SignedSq(y.dot, x.normA * x.normB)
         IN  IF l > r THEN 1 ELSE IF l < r THEN 0 - 1 ELSE 0

\* mutant of InsertBySimilarity: equal similarities change places
RECURSIVE InsertBySimilarityUnstable(_, _)
InsertBySimilarityUnstable(sorted, x) ==
    IF sorted # <<>> /\ SimDiffSign(x.similarity, sorted[Len(sorted)].similarity) >= 0
    THEN Append(InsertBySimilarityUnstable(SubSeq(sorted, 1, Len(sorted) - 1), x),
                sorted[Len(sorted)])
    ELSE Append(sorted, x)

\* Array.prototype.sort((a, b) => b.similarity - a.similarity): stable, so an
\* element moves in front of exactly the elements the comparator puts after it
RECURSIVE InsertBySimilarity(_, _)
InsertBySimilarity(sorted, x) ==
    IF sorted # <<>> /\ SimDiffSign(x.similarity, sorted[Len(sorted)].similarity) > 0
    THEN Append(InsertBySimilarity(SubSeq(sorted, 1, Len(sorted) - 1), x),
                sorted[Len(sorted)])
    ELSE Append(sorted, x)

RECURSIVE SortBySimilarity(_)
SortBySimilarity(s) ==
    IF s = <<>> THEN <<>>
    ELSE InsertBySimilarity(SortBySimilarity(SubSeq(s, 1, Len(s) - 1)), s[Len(s)])

\* what a call of a black-box model does: it throws, or it returns a value
Thrown(e) == [ok |-> FALSE, error |-> e]
Returned(v) == [ok |-> TRUE, value |-> v]

\* generateEmbedding(text), given the manager's embeddingModel field and what
\* this.embeddingModel(text, ...) does
generateEmbedding(model, outcome) ==
    IF model = "null" THEN Thrown(ErrorOf("Embedding model not initialized"))
    ELSE outcome

\* findRelevantChunks(metric, chunkEmbeddings, topK); query is the outcome of
\* generateEmbedding(searchQuery).  (Its leading initialize() returns at once:
\* the models are initialized whenever it runs.)
findRelevantChunks(query, chunkEmbeddings, topK) ==
    IF ~query.ok THEN query
    ELSE IF \E k \in DOMAIN chunkEmbeddings :
                ~cosineSimilarity(query.value, chunkEmbeddings[k].embedding).ok
    THEN [ok |-> FALSE, error |-> ErrorOf("Vectors must have the same length")]
    ELSE LET similarities ==
                 [k \in DOMAIN chunkEmbeddings |->
                     [embedding |-> chunkEmbeddings[k].embedding,
                      text |-> chunkEmbeddings[k].text,
                      chunkId |-> chunkEmbeddings[k].chunkId,
                      similarity |->
                          cosineSimilarity(query.value, chunkEmbeddings[k].embedding).value]]
         IN  [ok |-> TRUE, value |-> Slice(SortBySimilarity(similarities), 0, topK)]

(***************************************************************************)
(* parseMetricAnswer                                                       *)
(***************************************************************************)
\* the alternatives of /^(the\s+|total\s+|approximately\s+|about\s+)/i, in order
QualifierWords ==
    << <<"t", "h", "e">>,
       <<"t", "o", "t", "a", "l">>,
       <<"a", "p", "p", "r", "o", "x", "i", "m", "a", "t", "e", "l", "y">>,
       <<"a", "b", "o", "u", "t">> >>

\* the index just past the longest run of characters of class cls starting at
\* 0-based position from
RECURSIVE RunEnd(_, _, _)
RunEnd(s, from, cls) ==
    IF from < Len(s) /\ s[from + 1] \in cls THEN RunEnd(s, from + 1, cls) ELSE from

\* word, ignoring case, followed by at least one whitespace character, at the
\* start of s
MatchesQualifier(s, word) ==
    /\ Len(s) > Len(word)
    /\ \A k \in DOMAIN word : ToLower(s[k]) = word[k]
    /\ s[Len(word) + 1] \in Whitespace

\* answer.replace(/^(the\s+|total\s+|approximately\s+|about\s+)/i, '')
StripQualifier(s) ==
    IF \E w \in DOMAIN QualifierWords : MatchesQualifier(s, QualifierWords[w])
    THEN LET w == CHOOSE w \in DOMAIN QualifierWords :
                      /\ MatchesQualifier(s, QualifierWords[w])
                      /\ \A v \in 1..(w - 1) : ~MatchesQualifier(s, QualifierWords[v])
         IN  Slice(s, RunEnd(s, Len(QualifierWords[w]), Whitespace), Len(s))
    ELSE s

\* (?:,\d+)* : the index just past the repeated groups starting at from
RECURSIVE GroupsEnd(_, _)
GroupsEnd(s, from) ==
    IF from + 1 < Len(s) /\ s[from + 1] = "," /\ s[from + 2] \in Digits
    THEN GroupsEnd(s, RunEnd(s, from + 1, Digits))
    ELSE from

\* (?:\.\d+)? : the index just past the optional decimal part starting at from
DecimalEnd(s, from) ==
    IF from + 1 < Len(s) /\ s[from + 1] = "." /\ s[from + 2] \in Digits
    THEN RunEnd(s, from + 1, Digits)
    ELSE from

RECURSIVE RemoveCommas(_)
RemoveCommas(s) ==
    IF s = <<>> THEN <<>>
    ELSE IF Head(s) = "," THEN RemoveCommas(Tail(s))
    ELSE <<Head(s)>> \o RemoveCommas(Tail(s))

\* parseMetricAnswer(answer, metric): value and units are optional strings
parseMetricAnswer(answer, metric) ==
    LET cleanAnswer == Trim(StripQualifier(answer))
    IN  IF \E k \in DOMAIN cleanAnswer : cleanAnswer[k] \in Digits
        THEN \* cleanAnswer.match(/(\d+(?:,\d+)*(?:\.\d+)?)\s*([a-zA-Z%]+)?/)
             LET first == (CHOOSE k \in DOMAIN cleanAnswer :
                              /\ cleanAnswer[k] \in Digits
                              /\ \A j \in 1..(k - 1) : cleanAnswer[j] \notin Digits) - 1
                 numEnd == DecimalEnd(cleanAnswer,
                               GroupsEnd(cleanAnswer, RunEnd(cleanAnswer, first, Digits)))
                 unitStart == RunEnd(cleanAnswer, numEnd, Whitespace)
                 unitEnd == RunEnd(cleanAnswer, unitStart, Letters \cup {"%"})
             IN  [value |-> Some(RemoveCommas(Slice(cleanAnswer, first, numEnd))),
                  units |-> IF unitEnd > unitStart
                            THEN Some(Slice(cleanAnswer, unitStart, unitEnd))
                            ELSE metric.unit]
        ELSE [value |-> Some(cleanAnswer), units |-> None]

(***************************************************************************)
(* findEvidenceChunk                                                       *)
(***************************************************************************)
\* documentChunks.find(chunk => chunk.id === id): the first match, if any
FindChunkById(documentChunks, id) ==
    IF \E k \in DOMAIN documentChunks : documentChunks[k].id = id
    THEN Some(documentChunks[CHOOSE k \in DOMAIN documentChunks :
                  /\ documentChunks[k].id = id
                  /\ \A j \in 1..(k - 1) : documentChunks[j].id # id])
    ELSE None

\* whether the k-th relevant chunk's source chunk exists and contains the answer
EvidenceAt(answer, documentChunks, relevantChunks, k) ==
    LET sourceChunk == FindChunkById(documentChunks, relevantChunks[k].chunkId)
    IN  sourceChunk # None /\ Includes(sourceChunk[1].text, answer)

\* mutant of findEvidenceChunk: the fallback is the first chunk of the documents
findEvidenceChunkFirstOfAll(answer, documentChunks, relevantChunks) ==
    IF \E k \in DOMAIN relevantChunks :
           EvidenceAt(answer, documentChunks, relevantChunks, k)
    THEN FindChunkById(documentChunks,
             relevantChunks[CHOOSE k \in DOMAIN relevantChunks :
                 /\ EvidenceAt(answer, documentChunks, relevantChunks, k)
                 /\ \A j \in 1..(k - 1) :
                        ~EvidenceAt(answer, documentChunks, relevantChunks, j)].chunkId)
    ELSE IF Len(documentChunks) > 0
    THEN Some(documentChunks[1])
    ELSE None

\* mutant of findEvidenceChunk: the last relevant chunk that contains the answer
findEvidenceChunkLastMatch(answer, documentChunks, relevantChunks) ==
    IF \E k \in DOMAIN relevantChunks :
           EvidenceAt(answer, documentChunks, relevantChunks, k)
    THEN FindChunkById(documentChunks,
             relevantChunks[CHOOSE k \in DOMAIN relevantChunks :
                 /\ EvidenceAt(answer, documentChunks, relevantChunks, k)
                 /\ \A j \in (k + 1)..Len(relevantChunks) :
                        ~EvidenceAt(answer, documentChunks, relevantChunks, j)].chunkId)
    ELSE IF Len(relevantChunks) > 0
    THEN FindChunkById(documentChunks, relevantChunks[1].chunkId)
    ELSE None

findEvidenceChunk(answer, documentChunks, relevantChunks) ==
    IF \E k \in DOMAIN relevantChunks :
           EvidenceAt(answer, documentChunks, relevantChunks, k)
    THEN FindChunkById(documentChunks,
             relevantChunks[CHOOSE k \in DOMAIN relevantChunks :
                 /\ EvidenceAt(answer, documentChunks, relevantChunks, k)
                 /\ \A j \in 1..(k - 1) :
                        ~EvidenceAt(answer, documentChunks, relevantChunks, j)].chunkId)
    ELSE IF Len(relevantChunks) > 0
    THEN FindChunkById(documentChunks, relevantChunks[1].chunkId)
    ELSE None

(***************************************************************************)
(* AIModelManager.extractAnswer, extractMetricValue                        *)
(***************************************************************************)
\* a || b for optional strings ('' and undefined are falsy) and for optional
\* numbers (0 and undefined are falsy)
OrElseStr(a, b) == IF a = None \/ a[1] = <<>> THEN b ELSE a
OrElseNum(a, b) == IF a = None \/ a[1] = 0 THEN b ELSE a

\* mutant of ConfidenceOf: the score rounded to 0 or 1
ConfidenceRounded(qaResult) ==
    IF OrElseNum(qaResult.score, OrElseNum(qaResult.confidence, Some(0)))[1] >= 50
    THEN 100 ELSE 0

\* confidence: qaResult.score || qaResult.confidence || 0
ConfidenceOf(qaResult) ==
    OrElseNum(qaResult.score, OrElseNum(qaResult.confidence, Some(0)))[1]

\* extractAnswer(question, context), given the manager's qaModel field and what
\* this.qaModel(question, context) did: raw.value is [isArray, items], the single
\* result being items[1]
extractAnswer(model, raw) ==
    IF model = "null" THEN Thrown(ErrorOf("QA model not initialized"))
    ELSE IF ~raw.ok THEN raw
    ELSE IF raw.value.items = <<>>
    THEN Thrown(ErrorOf("Cannot read properties of undefined (reading 'answer')"))
    ELSE LET qaResult == raw.value.items[1]
         IN  Returned([answer |-> OrElseStr(qaResult.answer, OrElseStr(qaResult.text, Some(<<>>)))[1],
                       confidence |-> ConfidenceOf(qaResult)])

NoContextExplanation == <<"No relevant context found">>
FailedExplanation(e) ==
    <<"Extraction failed: ", IF e.isError THEN e.message ELSE "Unknown error">>
\* `Extracted from context with ${(confidence * 100).toFixed(1)}% confidence`,
\* the confidence being kept in percent
ExtractedExplanation(confidence) ==
    <<"Extracted from context with ", ToString(confidence), "% confidence">>

\* mutant of FailureExtraction: the caught message is dropped
FailureExtractionNoMessage(metric, e) ==
    [metricId |-> metric.id, value |-> None, units |-> None, confidence |-> 0,
     evidenceChunk |-> None, evidenceSpan |-> None, isModelled |-> FALSE,
     explanation |-> <<"Extraction failed: ", "Unknown error">>]

\* the extraction both catch blocks build
FailureExtraction(metric, e) ==
    [metricId |-> metric.id, value |-> None, units |-> None, confidence |-> 0,
     evidenceChunk |-> None, evidenceSpan |-> None, isModelled |-> FALSE,
     explanation |-> FailedExplanation(e)]

\* relevantChunks.map(chunk => chunk.text).join('\n\n')
ContextOf(relevantChunks) ==
    Join([k \in DOMAIN relevantChunks |-> relevantChunks[k].text], <<"\n", "\n">>)

\* mutants of IsEmptyContext: the context is not trimmed; the guard is dropped
IsEmptyContextNoTrim(context) == Len(context) = 0
IsEmptyContextNever(context) == FALSE

\* context.trim().length === 0
IsEmptyContext(context) == Len(Trim(context)) = 0

\* extractMetricValue(metric, relevantChunks, documentChunks); model is the
\* manager's qaModel field and raw is what the QA model does if it is called.
\* qaInvoked tells whether extractAnswer was called, caught what the catch block
\* caught.  (Its leading initialize() returns at once: the models are
\* initialized whenever it runs.)
extractMetricValue(metric, relevantChunks, documentChunks, model, raw) ==
    IF IsEmptyContext(ContextOf(relevantChunks))
    THEN [qaInvoked |-> FALSE, caught |-> None,
          extraction |->
              [metricId |-> metric.id, value |-> None, units |-> None, confidence |-> 0,
               evidenceChunk |-> None, evidenceSpan |-> None, isModelled |-> FALSE,
               explanation |-> NoContextExplanation]]
    ELSE LET qaResult == extractAnswer(model, raw)
         IN  IF ~qaResult.ok
             THEN [qaInvoked |-> TRUE, caught |-> Some(qaResult.error),
                   extraction |-> FailureExtraction(metric, qaResult.error)]
             ELSE LET parsed == parseMetricAnswer(qaResult.value.answer, metric)
                  IN  [qaInvoked |-> TRUE, caught |-> None,
                       extraction |->
                           [metricId |-> metric.id,
                            value |-> parsed.value,
                            units |-> parsed.units,
                            confidence |-> qaResult.value.confidence,
                            evidenceChunk |-> findEvidenceChunk(qaResult.value.answer,
                                                  documentChunks, relevantChunks),
                            evidenceSpan |-> Some(qaResult.value.answer),
                            isModelled |-> FALSE,
                            explanation |->
                                ExtractedExplanation(qaResult.value.confidence)]]

(***************************************************************************)
(* extractAllMetrics: the priority filter and sort                         *)
(***************************************************************************)
PriorityCutoff == 2
TopK == 3

\* ESRS_METRICS.filter(m => m.priority <= 2)
HighPriority(m) == m.priority <= PriorityCutoff
FilterPriority(metrics) == SelectSeq(metrics, HighPriority)

\* mutant of InsertByPriority: equal priorities change places
RECURSIVE InsertByPriorityUnstable(_, _)
InsertByPriorityUnstable(sorted, x) ==
    IF sorted # <<>> /\ x.priority - sorted[Len(sorted)].priority <= 0
    THEN Append(InsertByPriorityUnstable(SubSeq(sorted, 1, Len(sorted) - 1), x),
                sorted[Len(sorted)])
    ELSE Append(sorted, x)

\* .sort((a, b) => a.priority - b.priority): stable
RECURSIVE InsertByPriority(_, _)
InsertByPriority(sorted, x) ==
    IF sorted # <<>> /\ x.priority - sorted[Len(sorted)].priority < 0
    THEN Append(InsertByPriority(SubSeq(sorted, 1, Len(sorted) - 1), x),
                sorted[Len(sorted)])
    ELSE Append(sorted, x)

RECURSIVE SortByPriority(_)
SortByPriority(s) ==
    IF s = <<>> THEN <<>>
    ELSE InsertByPriority(SortByPriority(SubSeq(s, 1, Len(s) - 1)), s[Len(s)])

SelectPriorityMetrics(metrics) == SortByPriority(FilterPriority(metrics))

(***************************************************************************)
(* Inputs and the black-box models                                         *)
(***************************************************************************)
\* chunk texts: a whitespace-only text and a text with content
ChunkTexts == {<<" ">>, <<"7", "t">>}

\* documentChunks: up to MaxChunks chunks.  The id of a chunk is built from the
\* hash of its file, so the k-th chunk has an id of its own (k), or, as a chunk
\* of a second copy of a file, the id and the text of an earlier chunk.  The
\* source (the file name) is the chunk's own.
DocumentChunkLists ==
    UNION {[1..n -> ChunkTexts] : n \in 0..MaxChunks}
ChunkIds(texts) ==
    {ids \in [DOMAIN texts -> DOMAIN texts] :
        \A k \in DOMAIN texts :
            /\ ids[k] <= k
            /\ ids[ids[k]] = ids[k]
            /\ texts[ids[k]] = texts[k]}
ChunksOf(texts, ids) ==
    [k \in DOMAIN texts |-> [id |-> ids[k], text |-> texts[k], source |-> k]]

\* ESRS_METRICS: up to MaxMetrics metrics, the k-th with id k; the metrics with
\* an odd id declare a unit
Priorities == {1, 2, 3}
Catalogs == UNION {[1..n -> Priorities] : n \in 0..MaxMetrics}
CatalogOf(prios) ==
    [k \in DOMAIN prios |->
        [id |-> k, label |-> ToString(k), priority |-> prios[k],
         unit |-> IF k % 2 = 1 THEN Some(<<"k", "g">>) ELSE None]]

\* what a model call may throw
ModelThrows == {ErrorOf("model failure"), NonError}

\* the embedding model is deterministic for a given input
EmbeddingOf(text) == IF Trim(text) = <<>> THEN <<0, 1>> ELSE <<1, 0>>
\* embeddings of the search strings: nearer to the embedding of a text with
\* content, nearer to that of a blank text, and of another dimension
QueryEmbeddings == {<<2, 1>>, <<1, 2>>, <<1>>}
QueryOutcomes == {Thrown(e) : e \in ModelThrows} \cup {Returned(v) : v \in QueryEmbeddings}

\* QA results: {answer, score} or {text, confidence}; scores in percent
QAItem(answer, text, score, confidence) ==
    [answer |-> answer, text |-> text, score |-> score, confidence |-> confidence]
QAOutcomes ==
    {Thrown(e) : e \in ModelThrows} \cup
    {Returned([isArray |-> FALSE, items |-> <<QAItem(Some(<<"7", "t">>), None, Some(100), None)>>]),
     Returned([isArray |-> FALSE, items |-> <<QAItem(Some(<<"n">>), None, Some(50), None)>>]),
     Returned([isArray |-> FALSE, items |-> <<QAItem(Some(<<"7", "t">>), None, Some(0), None)>>]),
     Returned([isArray |-> TRUE, items |-> <<QAItem(None, Some(<<"n">>), None, Some(100))>>]),
     Returned([isArray |-> TRUE, items |-> <<>>])}

(***************************************************************************)
(* chunkText                                                               *)
(***************************************************************************)
MinChunkChars == 50

\* String.prototype.lastIndexOf(ch, fromIndex): 0-based, -1 when there is none
LastIndexOf(s, ch, fromIndex) ==
    LET top == Min(IF fromIndex < 0 THEN 0 ELSE fromIndex, Len(s) - 1)
        hits == {k \in 0..top : s[k + 1] = ch}
    IN  IF hits = {} THEN 0 - 1 ELSE CHOOSE k \in hits : \A j \in hits : j <= k

\* the range [from, to) of s that s.slice(start, end) copies (negative
\* arguments count from the end of s)
SliceRange(s, start, end) ==
    LET from == IF start < 0 THEN Max(Len(s) + start, 0) ELSE Min(start, Len(s))
        to == IF end < 0 THEN Max(Len(s) + end, 0) ELSE Min(end, Len(s))
    IN  [from |-> from, to |-> Max(from, to)]

\* the range of s that s.slice(start, end).trim() copies
TrimmedRange(s, start, end) ==
    LET r == SliceRange(s, start, end)
        solid == {k \in (r.from + 1)..r.to : s[k] \notin Whitespace}
    IN  IF solid = {} THEN [from |-> r.from, to |-> r.from]
        ELSE [from |-> (CHOOSE k \in solid : \A j \in solid : k <= j) - 1,
              to |-> CHOOSE k \in solid : \A j \in solid : j <= k]

\* the end of the window that starts at start: the candidate end, moved to one
\* past the last '.' or line break when that lies past the middle of the window
WindowEnd(s, start, maxChars) ==
    LET end == Min(start + maxChars, Len(s))
        sentenceEnd == LastIndexOf(s, ".", end)
        paragraphEnd == LastIndexOf(s, "\n", end)
        breakPoint == Max(sentenceEnd, paragraphEnd)
    IN  IF end < Len(s) /\ 2 * breakPoint > 2 * start + maxChars
        THEN breakPoint + 1
        ELSE end

\* mutant of NextStart: the character at the end of the window is skipped
NextStartSkipping(start, end, overlap) == Max(start + 1, end - overlap) + 1

\* mutant of NextStart: no guaranteed step forward
NextStartNoFloor(start, end, overlap) == end - overlap

\* start = Math.max(start + 1, end - overlap)
NextStart(start, end, overlap) == Max(start + 1, end - overlap)

\* chunks.filter(chunk => chunk.length > 50)
LongEnough(chunk) == chunk.to - chunk.from > MinChunkChars
FilterShort(cs) == SelectSeq(cs, LongEnough)

\* texts: up to MaxRuns runs of one character; blanks, '.' and line breaks come
\* singly
RunLengths == {1, 30, 50}
Runs == ({"a"} \X RunLengths) \cup ({" ", ".", "\n"} \X {1})
RunText(run) == [k \in 1..run[2] |-> run[1]]
RECURSIVE TextOfRuns(_)
TextOfRuns(runs) ==
    IF runs = <<>> THEN <<>> ELSE RunText(Head(runs)) \o TextOfRuns(Tail(runs))
ChunkInputs == UNION {[1..n -> Runs] : n \in 0..MaxRuns}

\* (maxChars, overlap): even and odd windows, an overlap longer than the
\* shortest chunk kept, an overlap no smaller than the window, a negative
\* overlap, and windows of one, zero and a negative number of characters
ChunkParams == {<<50, 0>>, <<60, 10>>, <<59, 20>>, <<60, 55>>, <<50, 60>>, <<50, 0 - 5>>,
                <<1, 0>>, <<0, 1>>, <<0 - 2, 0>>}

(***************************************************************************)
(* normalizeText                                                           *)
(***************************************************************************)
\* the euro sign (U+20AC), written as an ASCII character that no pattern of
\* normalizeText names
Euro == "$"
\* \w
WordChars == Letters \cup Digits \cup {"_"}

\* s, from 0-based position pos on, starts with word, ignoring case
StartsWithIgnoringCase(s, pos, word) ==
    /\ pos + Len(word) <= Len(s)
    /\ \A k \in DOMAIN word : ToLower(s[pos + k]) = word[k]

\* parseInt of a string of digits, and the decimal digits of a number
DigitChars == <<"0", "1", "2", "3", "4", "5", "6", "7", "8", "9">>
DigitValue(c) == (CHOOSE k \in DOMAIN DigitChars : DigitChars[k] = c) - 1
RECURSIVE ParseInt(_)
ParseInt(ds) ==
    IF ds = <<>> THEN 0
    ELSE 10 * ParseInt(SubSeq(ds, 1, Len(ds) - 1)) + DigitValue(ds[Len(ds)])
RECURSIVE DigitsOf(_)
DigitsOf(n) ==
    IF n < 10 THEN <<DigitChars[n + 1]>>
    ELSE Append(DigitsOf(n \div 10), DigitChars[(n % 10) + 1])

\* Each pattern below: the end (exclusive) of its match starting at pos, or -1,
\* and the text a match is replaced by.  A global replace tries the positions
\* from left to right and goes on behind a match.

\* /(\w+)-\s*\n\s*(\w+)/ -> '$1$2'
HyphenEnd(s, pos) ==
    LET w1 == RunEnd(s, pos, WordChars)
        ws == RunEnd(s, w1 + 1, Whitespace)
        w2 == RunEnd(s, ws, WordChars)
    IN  IF /\ w1 > pos
           /\ w1 < Len(s)
           /\ s[w1 + 1] = "-"
           /\ \E k \in (w1 + 2)..ws : s[k] = "\n"
           /\ w2 > ws
        THEN w2 ELSE 0 - 1
HyphenText(s, pos) ==
    LET w1 == RunEnd(s, pos, WordChars)
        ws == RunEnd(s, w1 + 1, Whitespace)
    IN  Slice(s, pos, w1) \o Slice(s, ws, RunEnd(s, ws, WordChars))
RECURSIVE JoinHyphenated(_, _)
JoinHyphenated(s, pos) ==
    IF pos >= Len(s) THEN <<>>
    ELSE IF HyphenEnd(s, pos) >= 0
    THEN HyphenText(s, pos) \o JoinHyphenated(s, HyphenEnd(s, pos))
    ELSE <<s[pos + 1]>> \o JoinHyphenated(s, pos + 1)

\* /\s+/ -> ' '
RECURSIVE CollapseWhitespace(_, _)
CollapseWhitespace(s, pos) ==
    IF pos >= Len(s) THEN <<>>
    ELSE IF s[pos + 1] \in Whitespace
    THEN <<" ">> \o CollapseWhitespace(s, RunEnd(s, pos, Whitespace))
    ELSE <<s[pos + 1]>> \o CollapseWhitespace(s, pos + 1)

\* /\n\s*\n\s*\n/ -> '\n\n': a line break and the whitespace behind it up to
\* the last of at least two more line breaks
BreaksEnd(s, pos) ==
    LET ws == RunEnd(s, pos, Whitespace)
        more == {k \in (pos + 2)..ws : s[k] = "\n"}
    IN  IF s[pos + 1] = "\n" /\ Cardinality(more) >= 2
        THEN CHOOSE k \in more : \A j \in more : j <= k
        ELSE 0 - 1
RECURSIVE CollapseBreaks(_, _)
CollapseBreaks(s, pos) ==
    IF pos >= Len(s) THEN <<>>
    ELSE IF BreaksEnd(s, pos) >= 0
    THEN <<"\n", "\n">> \o CollapseBreaks(s, BreaksEnd(s, pos))
    ELSE <<s[pos + 1]>> \o CollapseBreaks(s, pos + 1)

\* the alternatives of (tCO2|CO2|tonnes?), in the order the pattern tries them
UnitWords ==
    << <<"t", "c", "o", "2">>,
       <<"c", "o", "2">>,
       <<"t", "o", "n", "n", "e", "s">>,
       <<"t", "o", "n", "n", "e">> >>
\* the first alternative that matches at pos, or 0
UnitAt(s, pos) ==
    IF \E u \in DOMAIN UnitWords : StartsWithIgnoringCase(s, pos, UnitWords[u])
    THEN CHOOSE u \in DOMAIN UnitWords :
             /\ StartsWithIgnoringCase(s, pos, UnitWords[u])
             /\ \A v \in 1..(u - 1) : ~StartsWithIgnoringCase(s, pos, UnitWords[v])
    ELSE 0

\* /(\d+),(\d+)\s*(k|K)\s*(tCO2|CO2|tonnes?)/gi ->
\* `${parseInt(p1) * 1000 + parseInt(p2)} ${unit is tco2 ? 'tCO2e' : unit}`
KiloUnitStart(s, pos) ==
    LET d1 == RunEnd(s, pos, Digits)
        d2 == RunEnd(s, d1 + 1, Digits)
        k == RunEnd(s, d2, Whitespace)
    IN  IF /\ d1 > pos
           /\ d1 < Len(s)
           /\ s[d1 + 1] = ","
           /\ d2 > d1 + 1
           /\ k < Len(s)
           /\ ToLower(s[k + 1]) = "k"
           /\ UnitAt(s, RunEnd(s, k + 1, Whitespace)) # 0
        THEN RunEnd(s, k + 1, Whitespace) ELSE 0 - 1
KiloEnd(s, pos) ==
    IF KiloUnitStart(s, pos) >= 0
    THEN KiloUnitStart(s, pos) + Len(UnitWords[UnitAt(s, KiloUnitStart(s, pos))])
    ELSE 0 - 1
KiloText(s, pos) ==
    LET d1 == RunEnd(s, pos, Digits)
        d2 == RunEnd(s, d1 + 1, Digits)
        value == ParseInt(Slice(s, pos, d1)) * 1000 + ParseInt(Slice(s, d1 + 1, d2))
        unit == Slice(s, KiloUnitStart(s, pos), KiloEnd(s, pos))
    IN  DigitsOf(value) \o <<" ">> \o
        (IF UnitAt(s, KiloUnitStart(s, pos)) = 1 THEN <<"t", "C", "O", "2", "e">> ELSE unit)
RECURSIVE ExpandKilo(_, _)
ExpandKilo(s, pos) ==
    IF pos >= Len(s) THEN <<>>
    ELSE IF KiloEnd(s, pos) >= 0
    THEN KiloText(s, pos) \o ExpandKilo(s, KiloEnd(s, pos))
    ELSE <<s[pos + 1]>> \o ExpandKilo(s, pos + 1)

\* /(\d+(?:\.\d+)?)\s*%/ -> '$1%'
PercentEnd(s, pos) ==
    LET n == DecimalEnd(s, RunEnd(s, pos, Digits))
        w == RunEnd(s, n, Whitespace)
    IN  IF RunEnd(s, pos, Digits) > pos /\ w < Len(s) /\ s[w + 1] = "%"
        THEN w + 1 ELSE 0 - 1
RECURSIVE TightenPercent(_, _)
TightenPercent(s, pos) ==
    IF pos >= Len(s) THEN <<>>
    ELSE IF PercentEnd(s, pos) >= 0
    THEN Slice(s, pos, DecimalEnd(s, RunEnd(s, pos, Digits))) \o <<"%">>
             \o TightenPercent(s, PercentEnd(s, pos))
    ELSE <<s[pos + 1]>> \o TightenPercent(s, pos + 1)

\* the end of \d+(?:,\d+)*(?:\.\d+)? at pos (pos itself when there is no digit)
AmountEnd(s, pos) ==
    IF RunEnd(s, pos, Digits) > pos
    THEN DecimalEnd(s, GroupsEnd(s, RunEnd(s, pos, Digits)))
    ELSE pos

\* /€\s*(\d+(?:,\d+)*(?:\.\d+)?)/ -> '€$1'
EuroBeforeEnd(s, pos) ==
    LET w == RunEnd(s, pos + 1, Whitespace)
    IN  IF s[pos + 1] = Euro /\ AmountEnd(s, w) > w THEN AmountEnd(s, w) ELSE 0 - 1
RECURSIVE TightenEuroBefore(_, _)
TightenEuroBefore(s, pos) ==
    IF pos >= Len(s) THEN <<>>
    ELSE IF EuroBeforeEnd(s, pos) >= 0
    THEN <<Euro>> \o Slice(s, RunEnd(s, pos + 1, Whitespace), EuroBeforeEnd(s, pos))
             \o TightenEuroBefore(s, EuroBeforeEnd(s, pos))
    ELSE <<s[pos + 1]>> \o TightenEuroBefore(s, pos + 1)

\* /(\d+(?:,\d+)*(?:\.\d+)?)\s*€/ -> '€$1'
EuroAfterEnd(s, pos) ==
    LET w == RunEnd(s, AmountEnd(s, pos), Whitespace)
    IN  IF AmountEnd(s, pos) > pos /\ w < Len(s) /\ s[w + 1] = Euro
        THEN w + 1 ELSE 0 - 1
RECURSIVE MoveEuroFirst(_, _)
MoveEuroFirst(s, pos) ==
    IF pos >= Len(s) THEN <<>>
    ELSE IF EuroAfterEnd(s, pos) >= 0
    THEN <<Euro>> \o Slice(s, pos, AmountEnd(s, pos))
             \o MoveEuroFirst(s, EuroAfterEnd(s, pos))
    ELSE <<s[pos + 1]>> \o MoveEuroFirst(s, pos + 1)

normalizeText(s) ==
    Trim(MoveEuroFirst(TightenEuroBefore(TightenPercent(ExpandKilo(CollapseBreaks(
         CollapseWhitespace(JoinHyphenated(s, 0), 0), 0), 0), 0), 0), 0))

\* texts: up to MaxTokens of these pieces
NormalizeTokens ==
    {<<"5">>, <<Euro>>, <<" ">>, <<"%">>, <<".">>, <<",">>, <<"a">>, <<"-", "\n">>,
     <<"1", ",", "5", "k">>, <<"t", "C", "O", "2">>}
NormalizeInputs == UNION {[1..n -> NormalizeTokens] : n \in 0..MaxTokens}

(***************************************************************************)
(* State                                                                   *)
(***************************************************************************)
VARIABLES
    ESRS_METRICS,      \* the metric catalog
    documentChunks,    \* the argument of extractAllMetrics
    embeddingModel,    \* AIModelManager fields
    qaModel,
    isInitialized,
    pc,                \* where extractAllMetrics stands
    i,                 \* the loop index of the running loop
    chunkEmbeddings,   \* results of generateChunkEmbeddings
    priorityMetrics,
    relevantChunks,
    extractions,
    progress,          \* the calls of onProgress so far: [metric, num, den] = num / den
    result,            \* the settled promise: None, [ok, value] or [ok, error]
    embedFailed,       \* indices of the chunks whose embedding threw
    qaLog,             \* the calls of the QA model: [metricId, raw]
    caughtLog,         \* the exceptions caught per metric: [metricId, error]
    text,              \* the arguments of chunkText
    maxChars,
    overlap,
    cpc,               \* where chunkText stands
    start,
    chunks,            \* the pushed chunks: the range [from, to) of text each is a
                       \* copy of, with the window [start, end) it was cut from
    returned,          \* what chunkText returned: None or Some(chunks)
    indexed,           \* the arguments of a call of findRelevantChunks: the index,
    queryEmbedding,    \* the embedding of the search string,
    topK,              \* and topK
    rpc,               \* where that call stands
    retrieved,         \* what it returned or threw: None or Some(outcome)
    rawText,           \* the argument of normalizeText
    npc,               \* where the two calls of normalizeText stand
    once,              \* normalizeText(rawText)
    twice,             \* normalizeText(normalizeText(rawText))
    files,             \* the files handed to processFiles
    upc,               \* where processFiles stands
    fileIndex,         \* its loop index
    documents,         \* the documents processed so far
    allChunks,         \* documents.flatMap(doc => doc.chunks)
    parseErrors,       \* the files whose processing failed, with the error
    failure,           \* what the outer catch of processFiles caught: None or Some
    qaAnswer,          \* the arguments of parseMetricAnswer: the answer
    metricUnit,        \* and metric.unit
    ppc,               \* where that call stands
    parsedAnswer,      \* what it returned: None or Some([value, units])
    callpc,            \* per caller of initialize(): where its call stands
    calls,             \* per caller: the calls of initialize() it has made
    constructed,       \* per model: the calls of pipeline(...) made for it
    failures,          \* the calls of initialize() that have thrown
    documentList,      \* DocumentUpload's documents state: [id, status]
    isProcessing,      \* DocumentUpload's isProcessing state
    dpc,               \* where processDocuments stands
    loopDocuments,     \* the documents array processDocuments closed over
    docIndex,          \* the position of its for...of loop
    completedDocs,     \* its completedDocs array
    handedOver,        \* the argument of onDocumentsProcessed: None or Some(list)
    nextDocId,         \* the number of documents dropped so far
    removedPending     \* the ids removed with removeDocument while pending

pipelineVars ==
    <<ESRS_METRICS, documentChunks, embeddingModel, qaModel, isInitialized, pc, i,
      chunkEmbeddings, priorityMetrics, relevantChunks, extractions, progress,
      result, embedFailed, qaLog, caughtLog>>

chunkVars == <<text, maxChars, overlap, cpc, start, chunks, returned>>

retrievalVars == <<indexed, queryEmbedding, topK, rpc, retrieved>>

normalizeVars == <<rawText, npc, once, twice>>

uploadVars == <<files, upc, fileIndex, documents, allChunks, parseErrors, failure>>

parseVars == <<qaAnswer, metricUnit, ppc, parsedAnswer>>

\* the variables of the specifications that follow the first five
managerVars == <<callpc, calls, constructed, failures>>

dropVars ==
    <<documentList, isProcessing, dpc, loopDocuments, docIndex, completedDocs,
      handedOver, nextDocId, removedPending>>

otherVars == <<parseVars, managerVars, dropVars>>

vars == <<pipelineVars, chunkVars, retrievalVars, normalizeVars, uploadVars, otherVars>>

\* the part of the state a specification does not use
PipelineIdle ==
    /\ ESRS_METRICS = <<>>
    /\ documentChunks = <<>>
    /\ embeddingModel = "null"
    /\ qaModel = "null"
    /\ isInitialized = FALSE
    /\ pc = "idle"
    /\ i = 0
    /\ chunkEmbeddings = <<>>
    /\ priorityMetrics = <<>>
    /\ relevantChunks = <<>>
    /\ extractions = <<>>
    /\ progress = <<>>
    /\ result = None
    /\ embedFailed = {}
    /\ qaLog = <<>>
    /\ caughtLog = <<>>

ChunkIdle ==
    /\ text = <<>>
    /\ maxChars = 0
    /\ overlap = 0
    /\ cpc = "idle"
    /\ start = 0
    /\ chunks = <<>>
    /\ returned = None

RetrievalIdle ==
    /\ indexed = <<>>
    /\ queryEmbedding = <<>>
    /\ topK = 0
    /\ rpc = "idle"
    /\ retrieved = None

NormalizeIdle ==
    /\ rawText = <<>>
    /\ npc = "idle"
    /\ once = None
    /\ twice = None

UploadIdle ==
    /\ files = <<>>
    /\ upc = "idle"
    /\ fileIndex = 0
    /\ documents = <<>>
    /\ allChunks = <<>>
    /\ parseErrors = <<>>
    /\ failure = None

ParseIdle ==
    /\ qaAnswer = <<>>
    /\ metricUnit = None
    /\ ppc = "idle"
    /\ parsedAnswer = None

ManagerIdle ==
    /\ callpc = <<>>
    /\ calls = <<>>
    /\ constructed = [embedding |-> 0, qa |-> 0]
    /\ failures = 0

DropIdle ==
    /\ documentList = <<>>
    /\ isProcessing = FALSE
    /\ dpc = "idle"
    /\ loopDocuments = <<>>
    /\ docIndex = 0
    /\ completedDocs = <<>>
    /\ handedOver = None
    /\ nextDocId = 0
    /\ removedPending = {}

OthersIdle == ParseIdle /\ ManagerIdle /\ DropIdle

(***************************************************************************)
(* extractAllMetrics as a state machine                                    *)
(***************************************************************************)
\* the model manager is fresh, left half loaded by a failed initialization, or
\* initialized by an earlier run
ManagerStates ==
    {[embeddingModel |-> "null", qaModel |-> "null", isInitialized |-> FALSE],
     [embeddingModel |-> "loaded", qaModel |-> "null", isInitialized |-> FALSE],
     [embeddingModel |-> "loaded", qaModel |-> "loaded", isInitialized |-> TRUE]}

PipelineInit ==
    /\ \E prios \in Catalogs : ESRS_METRICS = CatalogOf(prios)
    /\ \E texts \in DocumentChunkLists :
           \E ids \in ChunkIds(texts) : documentChunks = ChunksOf(texts, ids)
    /\ \E m \in ManagerStates :
           /\ embeddingModel = m.embeddingModel
           /\ qaModel = m.qaModel
           /\ isInitialized = m.isInitialized
    /\ pc = "initialize"
    /\ i = 0
    /\ chunkEmbeddings = <<>>
    /\ priorityMetrics = <<>>
    /\ relevantChunks = <<>>
    /\ extractions = <<>>
    /\ progress = <<>>
    /\ result = None
    /\ embedFailed = {}
    /\ qaLog = <<>>
    /\ caughtLog = <<>>
    /\ ChunkIdle
    /\ RetrievalIdle
    /\ NormalizeIdle
    /\ UploadIdle
    /\ OthersIdle

\* mutant of OnInitializeFailure: the error is logged and swallowed
OnInitializeFailureSwallowed(e) == [pc |-> "embedding", result |-> None]

\* the catch block of initialize(): the error is logged and rethrown, which
\* rejects generateChunkEmbeddings and with it extractAllMetrics
OnInitializeFailure(e) == [pc |-> "rejected", result |-> Some(Thrown(e))]

\* AIModelManager.initialize(), awaited first by generateChunkEmbeddings
Initialize ==
    /\ pc = "initialize"
    /\ \/ /\ isInitialized
          /\ pc' = "embedding"
          /\ UNCHANGED <<embeddingModel, qaModel, isInitialized, result>>
       \/ /\ ~isInitialized
          /\ \E e \in ModelThrows :
                 /\ result' = OnInitializeFailure(e).result
                 /\ pc' = OnInitializeFailure(e).pc
                 /\ UNCHANGED <<embeddingModel, qaModel, isInitialized>>
       \/ /\ ~isInitialized
          /\ \E e \in ModelThrows :
                 /\ embeddingModel' = "loaded"
                 /\ result' = OnInitializeFailure(e).result
                 /\ pc' = OnInitializeFailure(e).pc
                 /\ UNCHANGED <<qaModel, isInitialized>>
       \/ /\ ~isInitialized
          /\ embeddingModel' = "loaded"
          /\ qaModel' = "loaded"
          /\ isInitialized' = TRUE
          /\ pc' = "embedding"
          /\ UNCHANGED result
    /\ UNCHANGED <<ESRS_METRICS, documentChunks, i, chunkEmbeddings, priorityMetrics,
                   relevantChunks, extractions, progress, embedFailed, qaLog, caughtLog,
                   chunkVars, retrievalVars, normalizeVars, uploadVars,
                   otherVars>>

\* mutant of AfterEmbedFailure: a placeholder entry is pushed
AfterEmbedFailurePlaceholder(results, chunk) ==
    Append(results, [embedding |-> <<>>, text |-> chunk.text, chunkId |-> chunk.id])

\* mutant of PushCaught: the failure is logged, nothing is pushed
PushCaughtDropped(list, metric, e) == list

\* the catch block of the loop of generateChunkEmbeddings: the failure is logged,
\* results is left as it is
AfterEmbedFailure(results, chunk) == results

\* the catch block of the metric loop: the failure extraction is pushed
PushCaught(list, metric, e) == Append(list, FailureExtraction(metric, e))

\* mutant of MetricProgress: the share of the metrics still to be extracted
MetricProgressRemaining(metric, index, n) ==
    [metric |-> metric.label, num |-> (n - index) * 100, den |-> n]

\* mutant of MetricProgress: the share of the metrics done after this one
MetricProgressAfter(metric, index, n) ==
    [metric |-> metric.label, num |-> (index + 1) * 100, den |-> n]

\* onProgress('Generating embeddings', (i + 1) / chunks.length * 100), as the
\* exact fraction num / den
EmbeddingProgress(index, n) ==
    [metric |-> "Generating embeddings", num |-> (index + 1) * 100, den |-> n]

\* onProgress(metric.label, (i / priorityMetrics.length) * 100)
MetricProgress(metric, index, n) ==
    [metric |-> metric.label, num |-> index * 100, den |-> n]

\* one iteration of the loop of generateChunkEmbeddings: the embedding is pushed
\* and progress reported, or generateEmbedding throws and the chunk is skipped
EmbedChunk ==
    /\ pc = "embedding"
    /\ i < Len(documentChunks)
    /\ LET chunk == documentChunks[i + 1]
       IN  \/ /\ generateEmbedding(embeddingModel, Returned(EmbeddingOf(chunk.text))).ok
              /\ chunkEmbeddings' =
                     Append(chunkEmbeddings,
                            [embedding |-> EmbeddingOf(chunk.text),
                             text |-> chunk.text,
                             chunkId |-> chunk.id])
              /\ progress' = Append(progress,
                     EmbeddingProgress(i, Len(documentChunks)))
              /\ UNCHANGED embedFailed
           \/ /\ embedFailed' = embedFailed \cup {i + 1}
              /\ chunkEmbeddings' = AfterEmbedFailure(chunkEmbeddings, chunk)
              /\ UNCHANGED progress
    /\ i' = i + 1
    /\ UNCHANGED <<ESRS_METRICS, documentChunks, embeddingModel, qaModel, isInitialized,
                   pc, priorityMetrics, relevantChunks, extractions, result, qaLog,
                   caughtLog, chunkVars,
                   retrievalVars, normalizeVars, uploadVars,
                   otherVars>>

\* generateChunkEmbeddings returns; the high-priority metrics are selected
SelectMetrics ==
    /\ pc = "embedding"
    /\ i = Len(documentChunks)
    /\ priorityMetrics' = SelectPriorityMetrics(ESRS_METRICS)
    /\ i' = 0
    /\ pc' = "metrics"
    /\ UNCHANGED <<ESRS_METRICS, documentChunks, embeddingModel, qaModel, isInitialized,
                   chunkEmbeddings, relevantChunks, extractions, progress, result,
                   embedFailed, qaLog, caughtLog, chunkVars,
                   retrievalVars, normalizeVars, uploadVars,
                   otherVars>>

\* the head of an iteration of the metric loop: onProgress?.(metric.label, ...)
BeginMetric ==
    /\ pc = "metrics"
    /\ i < Len(priorityMetrics)
    /\ progress' = Append(progress,
           MetricProgress(priorityMetrics[i + 1], i, Len(priorityMetrics)))
    /\ pc' = "retrieve"
    /\ UNCHANGED <<ESRS_METRICS, documentChunks, embeddingModel, qaModel, isInitialized,
                   i, chunkEmbeddings, priorityMetrics, relevantChunks, extractions,
                   result, embedFailed, qaLog, caughtLog, chunkVars,
                   retrievalVars, normalizeVars, uploadVars,
                   otherVars>>

\* mutant of IndexAfterRetrieval: the index itself is sorted and cut to topK
IndexSortedInPlace(index, found) ==
    IF found.ok
    THEN [k \in DOMAIN found.value |->
             [embedding |-> found.value[k].embedding,
              text |-> found.value[k].text,
              chunkId |-> found.value[k].chunkId]]
    ELSE index

\* the index after findRelevantChunks: chunkEmbeddings.map builds a new array of
\* new objects ({...chunk, similarity}), and sort and slice act on that array
IndexAfterRetrieval(index, found) == index

\* findRelevantChunks(metric, chunkEmbeddings, 3); what it throws is caught by
\* the loop body's catch, which pushes the failure extraction
FindRelevant ==
    /\ pc = "retrieve"
    /\ \E query \in QueryOutcomes :
           LET metric == priorityMetrics[i + 1]
               found == findRelevantChunks(generateEmbedding(embeddingModel, query),
                                           chunkEmbeddings, TopK)
           IN  /\ chunkEmbeddings' = IndexAfterRetrieval(chunkEmbeddings, found)
               /\ IF found.ok
                  THEN /\ relevantChunks' = found.value
                       /\ pc' = "extract"
                       /\ UNCHANGED <<i, extractions, caughtLog>>
                  ELSE /\ extractions' = PushCaught(extractions, metric, found.error)
                       /\ caughtLog' = Append(caughtLog,
                              [metricId |-> metric.id, error |-> found.error])
                       /\ i' = i + 1
                       /\ pc' = "metrics"
                       /\ UNCHANGED relevantChunks
    /\ UNCHANGED <<ESRS_METRICS, documentChunks, embeddingModel, qaModel, isInitialized,
                   priorityMetrics, progress, result, embedFailed,
                   qaLog, chunkVars, retrievalVars, normalizeVars, uploadVars,
                   otherVars>>

\* extractMetricValue(metric, relevantChunks, documentChunks) and the push of
\* its extraction
ExtractValue ==
    /\ pc = "extract"
    /\ \E raw \in QAOutcomes :
           LET metric == priorityMetrics[i + 1]
               got == extractMetricValue(metric, relevantChunks, documentChunks,
                                         qaModel, raw)
           IN  /\ extractions' = Append(extractions, got.extraction)
               /\ qaLog' = IF got.qaInvoked
                           THEN Append(qaLog, [metricId |-> metric.id, raw |-> raw])
                           ELSE qaLog
               /\ caughtLog' = IF got.caught # None
                               THEN Append(caughtLog,
                                        [metricId |-> metric.id, error |-> got.caught[1]])
                               ELSE caughtLog
    /\ i' = i + 1
    /\ pc' = "metrics"
    /\ UNCHANGED <<ESRS_METRICS, documentChunks, embeddingModel, qaModel, isInitialized,
                   chunkEmbeddings, priorityMetrics, relevantChunks, progress, result,
                   embedFailed, chunkVars,
                   retrievalVars, normalizeVars, uploadVars,
                   otherVars>>

\* the loop is over: the ExtractionResult is returned
ReturnResult ==
    /\ pc = "metrics"
    /\ i = Len(priorityMetrics)
    /\ result' = Some(Returned([extractions |-> extractions,
                                totalChunks |-> Len(documentChunks)]))
    /\ pc' = "returned"
    /\ UNCHANGED <<ESRS_METRICS, documentChunks, embeddingModel, qaModel, isInitialized,
                   i, chunkEmbeddings, priorityMetrics, relevantChunks, extractions,
                   progress, embedFailed, qaLog, caughtLog, chunkVars,
                   retrievalVars, normalizeVars, uploadVars,
                   otherVars>>

PipelineNext ==
    \/ Initialize
    \/ EmbedChunk
    \/ SelectMetrics
    \/ BeginMetric
    \/ FindRelevant
    \/ ExtractValue
    \/ ReturnResult

Init == PipelineInit
Next == PipelineNext
Spec == Init /\ [][Next]_vars

(***************************************************************************)
(* chunkText as a state machine                                            *)
(***************************************************************************)
ChunkInit ==
    /\ PipelineIdle
    /\ RetrievalIdle
    /\ NormalizeIdle
    /\ UploadIdle
    /\ OthersIdle
    /\ \E runs \in ChunkInputs : text = TextOfRuns(runs)
    /\ \E p \in ChunkParams : maxChars = p[1] /\ overlap = p[2]
    /\ cpc = "call"
    /\ start = 0
    /\ chunks = <<>>
    /\ returned = None

\* if (text.length <= maxChars) return [text]
ChunkShort ==
    /\ cpc = "call"
    /\ Len(text) <= maxChars
    /\ returned' = Some(<<[from |-> 0, to |-> Len(text), start |-> 0, end |-> Len(text)]>>)
    /\ cpc' = "done"
    /\ UNCHANGED <<text, maxChars, overlap, start, chunks, pipelineVars, retrievalVars,
                   normalizeVars, uploadVars,
                   otherVars>>

ChunkEnter ==
    /\ cpc = "call"
    /\ Len(text) > maxChars
    /\ cpc' = "loop"
    /\ UNCHANGED <<text, maxChars, overlap, start, chunks, returned, pipelineVars, retrievalVars,
                   normalizeVars, uploadVars,
                   otherVars>>

\* one iteration of while (start < text.length)
ChunkStep ==
    /\ cpc = "loop"
    /\ start < Len(text)
    /\ LET end == WindowEnd(text, start, maxChars)
           piece == TrimmedRange(text, start, end)
       IN  /\ chunks' = Append(chunks, [from |-> piece.from, to |-> piece.to,
                                        start |-> start, end |-> end])
           /\ start' = NextStart(start, end, overlap)
    /\ UNCHANGED <<text, maxChars, overlap, cpc, returned, pipelineVars, retrievalVars,
                   normalizeVars, uploadVars,
                   otherVars>>

\* return chunks.filter(chunk => chunk.length > 50)
ChunkReturn ==
    /\ cpc = "loop"
    /\ start >= Len(text)
    /\ returned' = Some(FilterShort(chunks))
    /\ cpc' = "done"
    /\ UNCHANGED <<text, maxChars, overlap, start, chunks, pipelineVars, retrievalVars,
                   normalizeVars, uploadVars,
                   otherVars>>

ChunkNext ==
    \/ ChunkShort
    \/ ChunkEnter
    \/ ChunkStep
    \/ ChunkReturn

SpecChunk == ChunkInit /\ [][ChunkNext]_vars

(***************************************************************************)
(* findRelevantChunks as a state machine                                   *)
(***************************************************************************)
DefaultTopK == 5

\* embeddings of the indexed chunks: nonzero vectors of one dimension (the
\* embedding model is called with normalize: true)
IndexVectors == {<<1, 0>>, <<0, 1>>, <<1, 1>>, <<0 - 1, 0>>}
\* the index: up to MaxIndex entries, the k-th of chunk k
Indexes == UNION {[1..n -> IndexVectors] : n \in 0..MaxIndex}
IndexOf(vectors) ==
    [k \in DOMAIN vectors |->
        [embedding |-> vectors[k], text |-> <<"7", "t">>, chunkId |-> k]]
\* embeddings of the search string (the last of another dimension)
RetrievalQueries == {<<1, 0>>, <<2, 1>>, <<1>>}
\* topK: none, fewer than, as many as and more than the entries of the index
TopKs == {0, 1, 2, TopK, DefaultTopK}

RetrievalInit ==
    /\ PipelineIdle
    /\ ChunkIdle
    /\ NormalizeIdle
    /\ UploadIdle
    /\ OthersIdle
    /\ \E vectors \in Indexes : indexed = IndexOf(vectors)
    /\ queryEmbedding \in RetrievalQueries
    /\ topK \in TopKs
    /\ rpc = "call"
    /\ retrieved = None

\* findRelevantChunks(metric, chunkEmbeddings, topK), the models being loaded
Retrieve ==
    /\ rpc = "call"
    /\ retrieved' = Some(findRelevantChunks(
                             generateEmbedding("loaded", Returned(queryEmbedding)),
                             indexed, topK))
    /\ rpc' = "done"
    /\ UNCHANGED <<indexed, queryEmbedding, topK, pipelineVars, chunkVars,
                   normalizeVars, uploadVars,
                   otherVars>>

RetrievalNext == Retrieve

SpecRetrieval == RetrievalInit /\ [][RetrievalNext]_vars

(***************************************************************************)
(* processDocument and ProcessingDashboard.processFiles                    *)
(***************************************************************************)
\* A file: the hash of its bytes, the format its MIME type or extension selects
\* and, per page (pdf), per sheet (xlsx) or for the whole text (docx, csv, txt),
\* the number of chunks chunkText cuts its normalized text into (0 for a page
\* or a sheet without text); readable is whether the parsing library reads it.
File(sha, format, readable, parts) ==
    [name |-> <<format, sha>>, sha256 |-> sha, format |-> format,
     readable |-> readable, parts |-> parts]

\* a text file, the same bytes saved as csv, another text file, a workbook of
\* empty sheets, a workbook with data, a pdf of two pages, an image-only pdf, a
\* docx that cannot be read, and a file of an unsupported type
FilePool ==
    {File(1, "txt", TRUE, <<2>>),
     File(1, "csv", TRUE, <<2>>),
     File(2, "txt", TRUE, <<1>>),
     File(3, "xlsx", TRUE, <<0, 0>>),
     File(4, "xlsx", TRUE, <<0, 1>>),
     File(5, "pdf", TRUE, <<1, 2>>),
     File(6, "pdf", TRUE, <<0>>),
     File(7, "docx", FALSE, <<1>>),
     File(8, "other", TRUE, <<1>>)}
FileLists == UNION {[1..n -> FilePool] : n \in 0..MaxFiles}

RECURSIVE Flatten(_)
Flatten(lists) == IF lists = <<>> THEN <<>> ELSE Head(lists) \o Flatten(Tail(lists))

\* the chunks of one page or sheet: `${sha256}-page-${pageNum}-chunk-${index}`,
\* `${sha256}-sheet-${sheetIndex}-chunk-${index}`; pages count from 1, sheets
\* and chunks from 0
PartChunks(file, tag, number, count) ==
    [k \in 1..count |->
        [id |-> <<file.sha256, tag, number, "chunk", k - 1>>,
         text |-> <<"7", "t">>, source |-> file.name]]

\* the chunks of a whole text: `${sha256}-chunk-${index}`
TextChunks(file) ==
    [k \in 1..file.parts[1] |->
        [id |-> <<file.sha256, "chunk", k - 1>>,
         text |-> <<"7", "t">>, source |-> file.name]]

ProcessedDocument(file, docChunks) ==
    [id |-> file.sha256, filename |-> file.name, sha256 |-> file.sha256,
     chunks |-> docChunks]

processPDF(file) ==
    LET docChunks == Flatten([p \in DOMAIN file.parts |->
                                 PartChunks(file, "page", p, file.parts[p])])
    IN  IF ~file.readable THEN Thrown(ErrorOf("Failed to process PDF"))
        ELSE IF Len(docChunks) = 0 THEN Thrown(ErrorOf("Failed to process PDF"))
        ELSE Returned(ProcessedDocument(file, docChunks))

processXLSX(file) ==
    IF ~file.readable THEN Thrown(ErrorOf("read failure"))
    ELSE Returned(ProcessedDocument(file,
             Flatten([p \in DOMAIN file.parts |->
                         PartChunks(file, "sheet", p - 1, file.parts[p])])))

\* processDOCX, processCSV and processTXT
processText(file) ==
    IF ~file.readable THEN Thrown(ErrorOf("read failure"))
    ELSE Returned(ProcessedDocument(file, TextChunks(file)))

processDocument(file) ==
    IF file.format = "pdf" THEN processPDF(file)
    ELSE IF file.format = "docx" THEN processText(file)
    ELSE IF file.format = "xlsx" THEN processXLSX(file)
    ELSE IF file.format = "csv" THEN processText(file)
    ELSE IF file.format = "txt" THEN processText(file)
    ELSE Thrown(ErrorOf("Unsupported file type"))

\* mutant of CollectChunks: the documents are taken last first
CollectChunksReversed(docs) ==
    Flatten([k \in DOMAIN docs |-> docs[Len(docs) + 1 - k].chunks])

\* documents.flatMap(doc => doc.chunks)
CollectChunks(docs) == Flatten([k \in DOMAIN docs |-> docs[k].chunks])

UploadInit ==
    /\ PipelineIdle
    /\ ChunkIdle
    /\ RetrievalIdle
    /\ NormalizeIdle
    /\ OthersIdle
    /\ files \in FileLists
    /\ upc = "parse"
    /\ fileIndex = 0
    /\ documents = <<>>
    /\ allChunks = <<>>
    /\ parseErrors = <<>>
    /\ failure = None

\* one iteration of the loop over the files: the document is pushed, or the
\* failure is shown on the parse step and the loop goes on
ProcessFile ==
    /\ upc = "parse"
    /\ fileIndex < Len(files)
    /\ LET file == files[fileIndex + 1]
           doc == processDocument(file)
       IN  IF doc.ok
           THEN /\ documents' = Append(documents, doc.value)
                /\ UNCHANGED parseErrors
           ELSE /\ parseErrors' = Append(parseErrors,
                       [name |-> file.name, error |-> doc.error])
                /\ UNCHANGED documents
    /\ fileIndex' = fileIndex + 1
    /\ UNCHANGED <<files, upc, allChunks, failure, pipelineVars, chunkVars,
                   retrievalVars, normalizeVars,
                   otherVars>>

\* if (documents.length === 0) throw ..., caught by the outer catch
NoDocuments ==
    /\ upc = "parse"
    /\ fileIndex = Len(files)
    /\ Len(documents) = 0
    /\ failure' = Some(ErrorOf("No documents were successfully processed"))
    /\ upc' = "error"
    /\ UNCHANGED <<files, fileIndex, documents, allChunks, parseErrors, pipelineVars,
                   chunkVars, retrievalVars, normalizeVars,
                   otherVars>>

\* the chunks are collected and extractAllMetrics(allChunks, ...) is called
StartExtraction ==
    /\ upc = "parse"
    /\ fileIndex = Len(files)
    /\ Len(documents) # 0
    /\ allChunks' = CollectChunks(documents)
    /\ upc' = "extracting"
    /\ UNCHANGED <<files, fileIndex, documents, parseErrors, failure, pipelineVars,
                   chunkVars, retrievalVars, normalizeVars,
                   otherVars>>

\* extractAllMetrics returns and processing completes, or it rejects (the models
\* fail to initialize) and the outer catch shows the error
ExtractionSettles ==
    /\ upc = "extracting"
    /\ \/ /\ upc' = "completed"
          /\ UNCHANGED failure
       \/ \E e \in ModelThrows :
              /\ failure' = Some(e)
              /\ upc' = "error"
    /\ UNCHANGED <<files, fileIndex, documents, allChunks, parseErrors, pipelineVars,
                   chunkVars, retrievalVars, normalizeVars,
                   otherVars>>

UploadNext ==
    \/ ProcessFile
    \/ NoDocuments
    \/ StartExtraction
    \/ ExtractionSettles

SpecUpload == UploadInit /\ [][UploadNext]_vars

(***************************************************************************)
(* normalizeText, applied to a text and to its own result                  *)
(***************************************************************************)
NormalizeInit ==
    /\ PipelineIdle
    /\ ChunkIdle
    /\ RetrievalIdle
    /\ UploadIdle
    /\ OthersIdle
    /\ \E tokens \in NormalizeInputs : rawText = Flatten(tokens)
    /\ npc = "call"
    /\ once = None
    /\ twice = None

NormalizeOnce ==
    /\ npc = "call"
    /\ once' = Some(normalizeText(rawText))
    /\ npc' = "once"
    /\ UNCHANGED <<rawText, twice, pipelineVars, chunkVars, retrievalVars, uploadVars,
                   otherVars>>

NormalizeTwice ==
    /\ npc = "once"
    /\ twice' = Some(normalizeText(once[1]))
    /\ npc' = "twice"
    /\ UNCHANGED <<rawText, once, pipelineVars, chunkVars, retrievalVars, uploadVars,
                   otherVars>>

NormalizeNext ==
    \/ NormalizeOnce
    \/ NormalizeTwice

SpecNormalize == NormalizeInit /\ [][NormalizeNext]_vars

(***************************************************************************)
(* parseMetricAnswer, applied to an answer                                 *)
(***************************************************************************)
\* answers: up to MaxTokens of these pieces
AnswerTokens ==
    {<<"t", "h", "e", " ">>, <<"T", "o", "t", "a", "l", " ">>, <<"5">>,
     <<"1", ",", "2", "5", "0">>, <<".", "5">>, <<" ">>, <<"k", "g">>, <<"%">>,
     <<"n", " ">>}
AnswerInputs == UNION {[1..n -> AnswerTokens] : n \in 0..MaxTokens}
\* metric.unit
MetricUnits == {None, Some(<<"M", "W", "h">>)}

ParseInit ==
    /\ PipelineIdle
    /\ ChunkIdle
    /\ RetrievalIdle
    /\ NormalizeIdle
    /\ UploadIdle
    /\ ManagerIdle
    /\ DropIdle
    /\ \E tokens \in AnswerInputs : qaAnswer = Flatten(tokens)
    /\ metricUnit \in MetricUnits
    /\ ppc = "call"
    /\ parsedAnswer = None

ParseAnswer ==
    /\ ppc = "call"
    /\ parsedAnswer' = Some(parseMetricAnswer(qaAnswer, [unit |-> metricUnit]))
    /\ ppc' = "done"
    /\ UNCHANGED <<qaAnswer, metricUnit, pipelineVars, chunkVars, retrievalVars,
                   normalizeVars, uploadVars, managerVars, dropVars>>

ParseNext == ParseAnswer

SpecParse == ParseInit /\ [][ParseNext]_vars

(***************************************************************************)
(* AIModelManager.initialize, called by several callers                    *)
(***************************************************************************)
\* the asynchronous callers of aiModelManager.initialize(): each stands before
\* a call, at one of the two awaits of the call, or after it
Callers == 1..MaxCallers

\* the fields of the pipeline a call of initialize() does not touch
managerFrame ==
    <<ESRS_METRICS, documentChunks, pc, i, chunkEmbeddings, priorityMetrics,
      relevantChunks, extractions, progress, result, embedFailed, qaLog, caughtLog,
      chunkVars, retrievalVars, normalizeVars, uploadVars, parseVars, dropVars>>

ManagerInit ==
    /\ PipelineIdle
    /\ ChunkIdle
    /\ RetrievalIdle
    /\ NormalizeIdle
    /\ UploadIdle
    /\ ParseIdle
    /\ DropIdle
    /\ callpc = [c \in Callers |-> "idle"]
    /\ calls = [c \in Callers |-> 0]
    /\ constructed = [embedding |-> 0, qa |-> 0]
    /\ failures = 0

\* initialize() is called: if (this.isInitialized) return; else the embedding
\* pipeline is requested and the call waits for it
CallInitialize(c) ==
    /\ callpc[c] \in {"idle", "returned", "rejected"}
    /\ calls[c] < MaxCalls
    /\ calls' = [calls EXCEPT ![c] = @ + 1]
    /\ IF isInitialized
       THEN /\ callpc' = [callpc EXCEPT ![c] = "returned"]
            /\ UNCHANGED constructed
       ELSE /\ callpc' = [callpc EXCEPT ![c] = "awaitEmbedding"]
            /\ constructed' = [constructed EXCEPT !.embedding = @ + 1]
    /\ UNCHANGED <<embeddingModel, qaModel, isInitialized, failures, managerFrame>>

\* the embedding pipeline settles: this.embeddingModel is assigned and the QA
\* pipeline requested, or the catch block rethrows
EmbeddingSettles(c) ==
    /\ callpc[c] = "awaitEmbedding"
    /\ \/ /\ embeddingModel' = "loaded"
          /\ constructed' = [constructed EXCEPT !.qa = @ + 1]
          /\ callpc' = [callpc EXCEPT ![c] = "awaitQA"]
          /\ UNCHANGED failures
       \/ /\ callpc' = [callpc EXCEPT ![c] = "rejected"]
          /\ failures' = failures + 1
          /\ UNCHANGED <<embeddingModel, constructed>>
    /\ UNCHANGED <<qaModel, isInitialized, calls, managerFrame>>

\* the QA pipeline settles: this.qaModel is assigned and isInitialized set, or
\* the catch block rethrows
QASettles(c) ==
    /\ callpc[c] = "awaitQA"
    /\ \/ /\ qaModel' = "loaded"
          /\ isInitialized' = TRUE
          /\ callpc' = [callpc EXCEPT ![c] = "returned"]
          /\ UNCHANGED failures
       \/ /\ callpc' = [callpc EXCEPT ![c] = "rejected"]
          /\ failures' = failures + 1
          /\ UNCHANGED <<qaModel, isInitialized>>
    /\ UNCHANGED <<embeddingModel, calls, constructed, managerFrame>>

ManagerNext ==
    \E c \in Callers :
        \/ CallInitialize(c)
        \/ EmbeddingSettles(c)
        \/ QASettles(c)

SpecManager == ManagerInit /\ [][ManagerNext]_vars

(***************************************************************************)
(* DocumentUpload: onDrop, removeDocument, processDocuments                *)
(***************************************************************************)
\* prev.map(d => d.id === id ? {...d, status} : d)
SetStatus(list, id, status) ==
    [k \in DOMAIN list |->
        IF list[k].id = id THEN [list[k] EXCEPT !.status = status] ELSE list[k]]

\* prev.filter(doc => doc.id !== id)
WithoutDocument(list, id) ==
    LET Keeps(doc) == doc.id # id
    IN  SelectSeq(list, Keeps)

DropInit ==
    /\ PipelineIdle
    /\ ChunkIdle
    /\ RetrievalIdle
    /\ NormalizeIdle
    /\ UploadIdle
    /\ ParseIdle
    /\ ManagerIdle
    /\ documentList = <<>>
    /\ isProcessing = FALSE
    /\ dpc = "ready"
    /\ loopDocuments = <<>>
    /\ docIndex = 0
    /\ completedDocs = <<>>
    /\ handedOver = None
    /\ nextDocId = 0
    /\ removedPending = {}

dropFrame ==
    <<pipelineVars, chunkVars, retrievalVars, normalizeVars, uploadVars, parseVars,
      managerVars>>

\* onDrop(acceptedFiles): one pending document per file is appended; the drop
\* zone stays active while processDocuments runs
OnDrop ==
    /\ dpc # "done"
    /\ \E n \in 1..2 :
           /\ nextDocId + n <= MaxDocs
           /\ documentList' = documentList \o
                  [k \in 1..n |-> [id |-> nextDocId + k, status |-> "pending"]]
           /\ nextDocId' = nextDocId + n
    /\ UNCHANGED <<isProcessing, dpc, loopDocuments, docIndex, completedDocs,
                   handedOver, removedPending, dropFrame>>

\* removeDocument(id), offered for the documents shown as pending
RemoveDocument ==
    /\ dpc # "done"
    /\ \E k \in DOMAIN documentList :
           /\ documentList[k].status = "pending"
           /\ documentList' = WithoutDocument(documentList, documentList[k].id)
           /\ removedPending' = removedPending \cup {documentList[k].id}
    /\ UNCHANGED <<isProcessing, dpc, loopDocuments, docIndex, completedDocs,
                   handedOver, nextDocId, dropFrame>>

\* processDocuments is started (the button is shown for a non-empty list and is
\* disabled while isProcessing): the loop runs over the documents of this render
StartProcessing ==
    /\ dpc = "ready"
    /\ ~isProcessing
    /\ Len(documentList) > 0
    /\ isProcessing' = TRUE
    /\ loopDocuments' = documentList
    /\ docIndex' = 0
    /\ completedDocs' = <<>>
    /\ dpc' = "loop"
    /\ UNCHANGED <<documentList, handedOver, nextDocId, removedPending, dropFrame>>

\* the head of an iteration: the document is shown as processing, and the
\* iteration waits (timers, arrayBuffer, digest)
BeginDocument ==
    /\ dpc = "loop"
    /\ docIndex < Len(loopDocuments)
    /\ documentList' = SetStatus(documentList, loopDocuments[docIndex + 1].id, "processing")
    /\ dpc' = "await"
    /\ UNCHANGED <<isProcessing, loopDocuments, docIndex, completedDocs, handedOver,
                   nextDocId, removedPending, dropFrame>>

\* the iteration ends: the completed document is shown and pushed, or the
\* catch block shows the error
SettleDocument ==
    /\ dpc = "await"
    /\ LET doc == loopDocuments[docIndex + 1]
       IN  \/ /\ documentList' = SetStatus(documentList, doc.id, "completed")
              /\ completedDocs' =
                     Append(completedDocs, [doc EXCEPT !.status = "completed"])
           \/ /\ documentList' = SetStatus(documentList, doc.id, "error")
              /\ UNCHANGED completedDocs
    /\ docIndex' = docIndex + 1
    /\ dpc' = "loop"
    /\ UNCHANGED <<isProcessing, loopDocuments, handedOver, nextDocId, removedPending,
                   dropFrame>>

\* after the loop: onDocumentsProcessed(completedDocs) if any completed, and
\* setIsProcessing(false)
FinishProcessing ==
    /\ dpc = "loop"
    /\ docIndex = Len(loopDocuments)
    /\ handedOver' = IF Len(completedDocs) > 0 THEN Some(completedDocs) ELSE None
    /\ isProcessing' = FALSE
    /\ dpc' = "done"
    /\ UNCHANGED <<documentList, loopDocuments, docIndex, completedDocs, nextDocId,
                   removedPending, dropFrame>>

DropNext ==
    \/ OnDrop
    \/ RemoveDocument
    \/ StartProcessing
    \/ BeginDocument
    \/ SettleDocument
    \/ FinishProcessing

SpecDrop == DropInit /\ [][DropNext]_vars

(***************************************************************************)
(* Properties                                                              *)
(***************************************************************************)
\* the ids of the metrics of the catalog with priority p, in catalog order
IdsWithPriority(p) ==
    LET HasP(m) == m.priority = p
        ms == SelectSeq(ESRS_METRICS, HasP)
    IN  [k \in DOMAIN ms |-> ms[k].id]
SelectedIds ==
    {ESRS_METRICS[k].id : k \in {j \in DOMAIN ESRS_METRICS : ESRS_METRICS[j].priority <= 2}}
MetricIds(list) == [k \in DOMAIN list |-> list[k].metricId]
\* the exceptions caught while metric id was processed
CaughtFor(id) == {caughtLog[k].error : k \in {j \in DOMAIN caughtLog : caughtLog[j].metricId = id}}
\* the QA calls made for metric id
QACallsFor(id) == {qaLog[k].raw : k \in {j \in DOMAIN qaLog : qaLog[j].metricId = id}}
Returns == pc = "returned" /\ result # None /\ result[1].ok

\* C1: over a non-empty chunk set, once the models are initialized,
\* extractAllMetrics never rejects, always has a next step until it returns, and
\* returns exactly one extraction per selected metric, whichever metrics failed
C1_OnePerSelectedMetric ==
    documentChunks # <<>> =>
        /\ pc = "rejected" => ~isInitialized
        /\ isInitialized /\ pc # "returned" => ENABLED PipelineNext
        /\ pc = "returned" =>
               /\ Returns
               /\ \A k \in DOMAIN result[1].value.extractions :
                      result[1].value.extractions[k].metricId \in SelectedIds
               /\ \A id \in SelectedIds :
                      Cardinality({k \in DOMAIN result[1].value.extractions :
                          result[1].value.extractions[k].metricId = id}) = 1

\* a run over chunks that returned two extractions, one of a metric that failed
\* and one of a metric that was answered
C1_Witness ==
    /\ Returns
    /\ documentChunks # <<>>
    /\ Len(result[1].value.extractions) = 2
    /\ caughtLog # <<>>
    /\ \E k \in DOMAIN extractions : extractions[k].confidence > 0

\* C2: the metric ids of the result are those of the catalog with priority 1 in
\* catalog order, then those with priority 2 in catalog order; no metric of a
\* priority above 2 is announced, retrieved for, asked about or extracted
C2_ResultOrder ==
    /\ pc = "returned" => MetricIds(result[1].value.extractions)
                              = IdsWithPriority(1) \o IdsWithPriority(2)
    /\ \A k \in DOMAIN priorityMetrics : priorityMetrics[k].priority <= 2
    /\ \A k \in DOMAIN extractions : extractions[k].metricId \in SelectedIds
    /\ \A k \in DOMAIN qaLog : qaLog[k].metricId \in SelectedIds
    /\ \A k \in DOMAIN progress :
           progress[k].metric # "Generating embeddings" =>
               \E id \in SelectedIds : progress[k].metric = ToString(id)

\* a returned run over the catalog of priorities <<2, 1>>: the sort reorders
C2_Witness ==
    /\ Returns
    /\ Len(ESRS_METRICS) = 2
    /\ ESRS_METRICS[1].priority = 2
    /\ ESRS_METRICS[2].priority = 1
    /\ Len(result[1].value.extractions) = 2

\* C3: every exception caught while a metric is processed has become that
\* metric's extraction, with confidence 0, no value and an explanation that
\* carries the message of the Error ("Unknown error" for a thrown value that is
\* not an Error); it never rejects extractAllMetrics, and the loop goes on
C3_ExceptionBecomesFailure ==
    /\ \A k \in DOMAIN caughtLog :
           \E j \in DOMAIN extractions :
               /\ extractions[j].metricId = caughtLog[k].metricId
               /\ extractions[j].confidence = 0
               /\ extractions[j].value = None
               /\ extractions[j].explanation =
                      <<"Extraction failed: ",
                        IF caughtLog[k].error.isError
                        THEN caughtLog[k].error.message ELSE "Unknown error">>
    /\ caughtLog # <<>> => pc # "rejected"
    /\ caughtLog # <<>> /\ pc = "metrics" /\ i < Len(priorityMetrics) => ENABLED BeginMetric
    /\ pc = "returned" => Len(extractions) = Len(priorityMetrics)

\* the first metric threw an Error and the second was still answered
C3_Witness ==
    /\ Returns
    /\ Len(extractions) = 2
    /\ caughtLog # <<>>
    /\ caughtLog[1].metricId = extractions[1].metricId
    /\ caughtLog[1].error.isError
    /\ extractions[2].confidence > 0

\* the entries chunks 1..n leave in the index: one per chunk whose embedding did
\* not throw, in chunk order
RECURSIVE SurvivorsUpTo(_)
SurvivorsUpTo(n) ==
    IF n = 0 THEN <<>>
    ELSE IF n \in embedFailed THEN SurvivorsUpTo(n - 1)
    ELSE Append(SurvivorsUpTo(n - 1),
                [chunkId |-> documentChunks[n].id, text |-> documentChunks[n].text])
ChunksSeen ==
    IF pc \in {"initialize", "rejected", "idle"} THEN 0
    ELSE IF pc = "embedding" THEN i
    ELSE Len(documentChunks)

\* C4: the index holds exactly one entry, with the chunk's id and text, for
\* each chunk seen whose embedding did not throw, in chunk order, and none for
\* a chunk whose embedding threw; a failure neither stops the loop nor rejects
C4_IndexHoldsSurvivors ==
    /\ [k \in DOMAIN chunkEmbeddings |->
            [chunkId |-> chunkEmbeddings[k].chunkId, text |-> chunkEmbeddings[k].text]]
           = SurvivorsUpTo(ChunksSeen)
    /\ \A k \in DOMAIN chunkEmbeddings :
           chunkEmbeddings[k].embedding = EmbeddingOf(chunkEmbeddings[k].text)
    /\ embedFailed # {} => pc # "rejected"
    /\ pc = "embedding" /\ i < Len(documentChunks) => ENABLED EmbedChunk
    /\ pc = "embedding" /\ i = Len(documentChunks) => ENABLED SelectMetrics

\* one of two chunks failed to embed, and the run returned an answered metric
C4_Witness ==
    /\ Returns
    /\ Len(documentChunks) = 2
    /\ Cardinality(embedFailed) = 1
    /\ Len(chunkEmbeddings) = 1
    /\ \E k \in DOMAIN extractions : extractions[k].confidence > 0

\* C5: a run passes initialize() only with both models loaded; a failed
\* initialization rejects extractAllMetrics with the error: nothing is embedded,
\* announced, asked or extracted, and no result is returned
C5_InitFailureAborts ==
    /\ pc \in {"embedding", "metrics", "retrieve", "extract", "returned"} =>
           isInitialized /\ embeddingModel = "loaded" /\ qaModel = "loaded"
    /\ pc = "rejected" =>
           /\ ~isInitialized
           /\ result # None
           /\ ~result[1].ok
           /\ result[1].error \in ModelThrows
           /\ chunkEmbeddings = <<>>
           /\ extractions = <<>>
           /\ progress = <<>>
           /\ qaLog = <<>>
    /\ result # None /\ result[1].ok => isInitialized

\* the QA pipeline failed to load, with chunks and metrics waiting
C5_Witness ==
    /\ pc = "rejected"
    /\ embeddingModel = "loaded"
    /\ qaModel = "null"
    /\ documentChunks # <<>>
    /\ \E k \in DOMAIN ESRS_METRICS : ESRS_METRICS[k].priority <= 2

IsBlank(s) == \A k \in DOMAIN s : s[k] \in Whitespace

\* C6: when the context of the retrieved chunks is empty or whitespace only,
\* extractMetricValue pushes the extraction with confidence 0, no value and
\* the explanation "No relevant context found", and the QA model is not called
C6_EmptyContextSkipsQA ==
    [][(pc = "extract" /\ IsBlank(ContextOf(relevantChunks))) =>
          /\ qaLog' = qaLog
          /\ caughtLog' = caughtLog
          /\ extractions' = Append(extractions,
                 [metricId |-> priorityMetrics[i + 1].id, value |-> None,
                  units |-> None, confidence |-> 0, evidenceChunk |-> None,
                  evidenceSpan |-> None, isModelled |-> FALSE,
                  explanation |-> <<"No relevant context found">>])]_vars

\* the last metric had whitespace-only chunks retrieved and got the explanation
C6_Witness ==
    /\ pc = "metrics"
    /\ i > 0
    /\ Len(extractions) = i
    /\ relevantChunks # <<>>
    /\ extractions[i].explanation = <<"No relevant context found">>
    /\ QACallsFor(extractions[i].metricId) = {}

\* the claim as first stated: over an empty chunk set extractAllMetrics never
\* rejects, and every extraction it returns has confidence 0, no value and the
\* explanation that no context was found
C7_EmptyChunkSetAsStated ==
    documentChunks = <<>> =>
        /\ pc # "rejected"
        /\ pc = "returned" =>
               /\ result[1].value.totalChunks = 0
               /\ \A k \in DOMAIN result[1].value.extractions :
                      /\ result[1].value.extractions[k].confidence = 0
                      /\ result[1].value.extractions[k].value = None
                      /\ result[1].value.extractions[k].explanation
                             = <<"No relevant context found">>

\* C7 (amended): over an empty chunk set, once the models are initialized,
\* extractAllMetrics does not reject, never calls the QA model, and returns
\* totalChunks = 0 with, for every selected metric, confidence 0 and no value;
\* the explanation is "No relevant context found", except for a metric whose
\* query embedding threw, whose explanation is that of the failure
C7_EmptyChunkSet ==
    documentChunks = <<>> =>
        /\ pc = "rejected" => ~isInitialized
        /\ qaLog = <<>>
        /\ pc = "returned" =>
               /\ Returns
               /\ result[1].value.totalChunks = 0
               /\ MetricIds(result[1].value.extractions)
                      = IdsWithPriority(1) \o IdsWithPriority(2)
               /\ \A k \in DOMAIN result[1].value.extractions :
                      LET x == result[1].value.extractions[k]
                      IN  /\ x.confidence = 0
                          /\ x.value = None
                          /\ IF CaughtFor(x.metricId) = {}
                             THEN x.explanation = <<"No relevant context found">>
                             ELSE \E e \in CaughtFor(x.metricId) :
                                      x.explanation =
                                          <<"Extraction failed: ",
                                            IF e.isError THEN e.message ELSE "Unknown error">>

\* an empty chunk set, two metrics: one found no context, one failed to embed
\* its search string
C7_Witness ==
    /\ Returns
    /\ documentChunks = <<>>
    /\ Len(result[1].value.extractions) = 2
    /\ \E k \in DOMAIN extractions :
           extractions[k].explanation = <<"No relevant context found">>
    /\ \E k \in DOMAIN extractions : CaughtFor(extractions[k].metricId) # {}

\* the score a QA result reports: its score field, else its confidence field
ReportedScore(raw) ==
    IF raw.value.items[1].score # None
    THEN raw.value.items[1].score[1]
    ELSE raw.value.items[1].confidence[1]
\* the QA call returned a result
QAAnswered(raw) == raw.ok /\ raw.value.items # <<>>

\* C8: the confidence of an extraction is the score the QA model reported for
\* the metric when the QA step succeeded, and 0 otherwise; with scores in
\* [0, 1] (0..100 percent) it lies in [0, 1]
C8_ConfidenceIsQAScore ==
    \A k \in DOMAIN extractions :
        LET x == extractions[k]
            answers == {raw \in QACallsFor(x.metricId) : QAAnswered(raw)}
        IN  /\ answers # {} => \A raw \in answers : x.confidence = ReportedScore(raw)
            /\ answers = {} => x.confidence = 0
            /\ (\A raw \in answers : ReportedScore(raw) \in 0..100) => x.confidence \in 0..100

\* one metric answered with the score 0.5, another failed in the QA call
C8_Witness ==
    /\ Returns
    /\ \E k \in DOMAIN extractions :
           /\ extractions[k].confidence = 50
           /\ \E raw \in QACallsFor(extractions[k].metricId) : QAAnswered(raw)
    /\ \E k \in DOMAIN extractions :
           /\ extractions[k].confidence = 0
           /\ \E raw \in QACallsFor(extractions[k].metricId) : ~QAAnswered(raw)

\* C14: a dimension mismatch between the query vector and an indexed vector is
\* fatal: the error cosineSimilarity throws is never caught for a metric and
\* never becomes that metric's failure extraction
C14_DimensionMismatchFatal ==
    /\ \A k \in DOMAIN caughtLog :
           caughtLog[k].error # ErrorOf("Vectors must have the same length")
    /\ \A k \in DOMAIN extractions :
           extractions[k].explanation
               # <<"Extraction failed: ", "Vectors must have the same length">>
    /\ pc = "returned" =>
           \A k \in DOMAIN result[1].value.extractions :
               result[1].value.extractions[k].explanation
                   # <<"Extraction failed: ", "Vectors must have the same length">>

C9_ChunkSizeBound ==
    (cpc = "done" /\ maxChars >= 1) =>
        \A k \in DOMAIN returned[1] : returned[1][k].to - returned[1][k].from <= maxChars

\* C10: whatever maxChars and overlap are, every iteration of the loop of
\* chunkText starts inside the text and moves start forward by at least one, so
\* the loop runs at most len(text) times; once start has reached the end of the
\* text the loop is left
C10_ChunkTextTerminates ==
    /\ \A k \in DOMAIN chunks :
           /\ chunks[k].start < Len(text)
           /\ k > 1 => chunks[k].start >= chunks[k - 1].start + 1
    /\ chunks # <<>> => start >= chunks[Len(chunks)].start + 1
    /\ Len(chunks) <= Len(text)
    /\ cpc = "done" /\ Len(text) > maxChars => start >= Len(text)

\* a text cut with an overlap no smaller than the window, in several steps
C10_Witness ==
    /\ cpc = "done"
    /\ overlap >= maxChars
    /\ maxChars >= 1
    /\ Len(chunks) > 2
    /\ start >= Len(text)

\* C11: every string chunkText returns is non-empty, whatever the text (the
\* empty text included), maxChars and overlap
C11_ChunksNonEmpty ==
    cpc = "done" =>
        \A k \in DOMAIN returned[1] : returned[1][k].to - returned[1][k].from > 0

\* C12: for a text longer than maxChars, with maxChars >= 1 and overlap >= 0,
\* the windows [start, end) of the loop cover the text: the first starts at 0,
\* each next one starts no later than the end of the one before, every window
\* holds at least one character, and when the loop is left the last window
\* has ended at the end of the text
C12_WindowsCoverText ==
    (Len(text) > maxChars /\ maxChars >= 1 /\ overlap >= 0) =>
        /\ \A k \in DOMAIN chunks :
               /\ chunks[k].start < chunks[k].end
               /\ chunks[k].end <= Len(text)
               /\ k = 1 => chunks[k].start = 0
               /\ k > 1 => chunks[k].start <= chunks[k - 1].end
        /\ chunks # <<>> => start <= chunks[Len(chunks)].end
        /\ cpc = "done" =>
               \A p \in 0..(Len(text) - 1) :
                   \E k \in DOMAIN chunks : chunks[k].start <= p /\ p < chunks[k].end

\* a text cut without overlap into several windows, one of them snapped back
\* to a '.' or a line break
C12_Witness ==
    /\ cpc = "done"
    /\ maxChars >= 1
    /\ overlap = 0
    /\ Len(chunks) >= 2
    /\ \E k \in DOMAIN chunks : chunks[k].end < Min(chunks[k].start + maxChars, Len(text))

(***************************************************************************)
(* Properties of findRelevantChunks                                        *)
(***************************************************************************)
\* the similarity of the indexed entry of chunk id to the query
SimilarityOf(id) == cosineSimilarity(queryEmbedding, indexed[id].embedding).value
\* entry a ranks before entry b: it is more similar, or as similar and older
RanksBefore(a, b) ==
    \/ SimDiffSign(SimilarityOf(a), SimilarityOf(b)) > 0
    \/ SimDiffSign(SimilarityOf(a), SimilarityOf(b)) = 0 /\ a < b

\* C13: findRelevantChunks returns min(topK, n) entries of the n-entry index,
\* never more than topK: each is an indexed entry with its similarity; they
\* are in descending order of similarity, entries of equal similarity in the
\* order of the index; every entry left out ranks after every entry returned
C13_TopKOrdering ==
    (rpc = "done" /\ retrieved[1].ok) =>
        LET r == retrieved[1].value
            ids == {r[k].chunkId : k \in DOMAIN r}
        IN  /\ Len(r) = Min(topK, Len(indexed))
            /\ Len(r) <= topK
            /\ \A k \in DOMAIN r :
                   /\ r[k].chunkId \in DOMAIN indexed
                   /\ r[k].embedding = indexed[r[k].chunkId].embedding
                   /\ r[k].text = indexed[r[k].chunkId].text
                   /\ r[k].similarity = SimilarityOf(r[k].chunkId)
            /\ \A k, l \in DOMAIN r : k < l => RanksBefore(r[k].chunkId, r[l].chunkId)
            /\ \A k \in DOMAIN r : \A j \in DOMAIN indexed \ ids :
                   RanksBefore(r[k].chunkId, j)

\* the two most similar of three entries, which tie, were returned in the order
\* of the index, ahead of an older and less similar entry that was left out
C13_Witness ==
    /\ rpc = "done"
    /\ retrieved[1].ok
    /\ Len(indexed) = 3
    /\ topK = 2
    /\ Len(retrieved[1].value) = 2
    /\ retrieved[1].value[1].chunkId = 2
    /\ retrieved[1].value[2].chunkId = 3
    /\ SimDiffSign(SimilarityOf(2), SimilarityOf(3)) = 0

(***************************************************************************)
(* Properties of processFiles                                              *)
(***************************************************************************)
\* C16: the ids of the chunks of one processing run are pairwise distinct,
\* across all documents of the batch
C16_ChunkIdsDistinct ==
    /\ \A d, e \in DOMAIN documents :
           \A k \in DOMAIN documents[d].chunks : \A l \in DOMAIN documents[e].chunks :
               (d # e \/ k # l) => documents[d].chunks[k].id # documents[e].chunks[l].id
    /\ \A k, l \in DOMAIN allChunks : k # l => allChunks[k].id # allChunks[l].id

\* the number of chunks of the documents processed
RECURSIVE TotalChunks(_)
TotalChunks(docs) ==
    IF docs = <<>> THEN 0 ELSE Len(Head(docs).chunks) + TotalChunks(Tail(docs))

\* C20: when the documents of the batch yield no chunk at all, the run ends in
\* an error shown to the caller and extractAllMetrics is never called
C20_ZeroChunksFatal ==
    (fileIndex = Len(files) /\ TotalChunks(documents) = 0) =>
        /\ upc \notin {"extracting", "completed"}
        /\ upc # "parse" => upc = "error" /\ failure # None

(***************************************************************************)
(* Properties of normalizeText                                             *)
(***************************************************************************)
\* a step of the run that ends it: extractAllMetrics returns or rejects
EndsRun == PipelineNext /\ result' # None

\* C18: between two consecutive chunk embeddings, and between two consecutive
\* metric extractions, the run can be ended early (the abort signal is checked
\* there), and what it then returns is the extractions accumulated so far
C18_AbortCheckedBetweenSteps ==
    /\ (pc = "embedding" /\ 0 < i /\ i < Len(documentChunks)) => ENABLED EndsRun
    /\ (pc = "metrics" /\ 0 < i /\ i < Len(priorityMetrics)) => ENABLED EndsRun
    /\ (result # None /\ result[1].ok) => result[1].value.extractions = extractions

\* the phase of a progress call: embedding generation or metric extraction
InEmbeddingPhase(p) == p.metric = "Generating embeddings"
\* comparison of two progress values, each an exact fraction
ProgressLess(p, q) == p.num * q.den < q.num * p.den
ProgressInRange(p) == p.den > 0 /\ 0 <= p.num /\ p.num <= 100 * p.den

\* C19: every progress value passed to onProgress lies in [0,100]; two
\* consecutive values of the embedding phase strictly increase (also when
\* chunk embeddings in between failed), two consecutive values of the metric
\* phase never decrease
C19_ProgressMonotone ==
    /\ \A k \in DOMAIN progress : ProgressInRange(progress[k])
    /\ \A k \in 1..(Len(progress) - 1) :
           LET p == progress[k]
               q == progress[k + 1]
           IN  /\ (InEmbeddingPhase(p) /\ InEmbeddingPhase(q)) => ProgressLess(p, q)
               /\ (~InEmbeddingPhase(p) /\ ~InEmbeddingPhase(q)) => ~ProgressLess(q, p)

\* a returned run in which a chunk embedding failed between two that were
\* reported, and two metrics were reported
C19_Witness ==
    /\ pc = "returned"
    /\ 2 \in embedFailed
    /\ Len(progress) = 4
    /\ InEmbeddingPhase(progress[1])
    /\ InEmbeddingPhase(progress[2])
    /\ ~InEmbeddingPhase(progress[3])
    /\ ~InEmbeddingPhase(progress[4])

\* the chunks of the files processDocument reads, file by file
ChunksOfReadFiles ==
    Flatten([k \in DOMAIN files |->
                IF processDocument(files[k]).ok
                THEN processDocument(files[k]).value.chunks
                ELSE <<>>])
FailedFiles == {k \in 1..fileIndex : ~processDocument(files[k]).ok}

\* C21: a file processDocument fails on (an unsupported format included) does
\* not stop the batch: the loop reads every file, each failed file is reported
\* and contributes no chunk, the batch is given up only when no file at all was
\* read, and extractAllMetrics receives the chunks of the files that were read,
\* in file order
C21_ReadFailureContinues ==
    /\ upc # "parse" => fileIndex = Len(files)
    /\ Len(parseErrors) = Cardinality(FailedFiles)
    /\ Len(documents) + Len(parseErrors) = fileIndex
    /\ upc \in {"extracting", "completed"} => allChunks = ChunksOfReadFiles
    /\ (upc = "error" /\ allChunks = <<>> /\ failure[1].isError
          /\ failure[1].message = "No documents were successfully processed")
           => FailedFiles = DOMAIN files

\* the first file is of an unsupported type, the second is read, and its chunks
\* have reached extractAllMetrics
C21_Witness ==
    /\ upc = "extracting"
    /\ Len(files) = 2
    /\ files[1].format = "other"
    /\ FailedFiles = {1}
    /\ allChunks # <<>>
    /\ allChunks = documents[1].chunks

\* C22: once generateChunkEmbeddings has returned, no step of the metric loop
\* (retrieval, QA, parsing, evidence attribution, the return) changes the
\* embedding index or the document chunk list
C22_IndexFrozenAfterBuild ==
    [][(pc = "metrics" \/ pc = "retrieve" \/ pc = "extract") =>
          (chunkEmbeddings' = chunkEmbeddings /\ documentChunks' = documentChunks)]_vars

\* a run returned after a retrieval that ranked the second index entry before
\* the first, and a QA call; the index is still in chunk order
C22_Witness ==
    /\ Returns
    /\ qaLog # <<>>
    /\ Len(chunkEmbeddings) >= 2
    /\ chunkEmbeddings[1].embedding = <<0, 1>>
    /\ chunkEmbeddings[2].embedding = <<1, 0>>
    /\ \E k \in DOMAIN extractions : extractions[k].evidenceChunk # None

\* the candidate end of the window that starts at from
CandidateEnd(from) == Min(from + maxChars, Len(text))
\* the last '.' or line break at or before the candidate end (-1: none)
BreakBefore(from) ==
    Max(LastIndexOf(text, ".", CandidateEnd(from)),
        LastIndexOf(text, "\n", CandidateEnd(from)))

\* C23: for maxChars >= 1 and a window whose candidate end is before the end of
\* the text, the end is one past the last '.' or line break found backward from
\* the candidate end exactly when that position is greater than
\* start + maxChars * 0.5, and the candidate end otherwise; the chosen end lies
\* in (start, start + maxChars]
C23_SnapPastMidpoint ==
    \A k \in DOMAIN chunks :
        LET from == chunks[k].start
        IN  (maxChars >= 1 /\ CandidateEnd(from) < Len(text)) =>
                /\ chunks[k].end =
                       IF 2 * BreakBefore(from) > 2 * from + maxChars
                       THEN BreakBefore(from) + 1
                       ELSE CandidateEnd(from)
                /\ from < chunks[k].end
                /\ chunks[k].end <= from + maxChars

\* a trimmed candidate chunk of at least 50 characters
AtLeastMinChars(chunk) == chunk.to - chunk.from >= MinChunkChars

\* C24: for a text longer than maxChars, chunkText returns, in window order,
\* exactly the trimmed candidates of at least 50 characters (one of exactly 50
\* included) and none that is shorter
C24_DropsOnlyShorterThanMin ==
    (cpc = "done" /\ Len(text) > maxChars) =>
        returned[1] = SelectSeq(chunks, AtLeastMinChars)

\* the answer string of a QA result: its answer, else its text, else ''
RawAnswer(raw) ==
    LET item == raw.value.items[1]
    IN  IF item.answer # None /\ item.answer[1] # <<>> THEN item.answer[1]
        ELSE IF item.text # None /\ item.text[1] # <<>> THEN item.text[1]
        ELSE <<>>
\* the retrieved chunks whose text contains the answer
Containing(answer) ==
    {k \in DOMAIN relevantChunks : Includes(relevantChunks[k].text, answer)}
\* the retrieved chunk the evidence is attributed to
Attributed(answer) ==
    IF Containing(answer) = {} THEN 1
    ELSE CHOOSE k \in Containing(answer) : \A j \in Containing(answer) : k <= j

CleanedAnswer == Trim(StripQualifier(qaAnswer))
\* the end of the numeric literal at the start of the cleaned answer
LeadingLiteralEnd ==
    DecimalEnd(CleanedAnswer, GroupsEnd(CleanedAnswer, RunEnd(CleanedAnswer, 0, Digits)))
\* the unit token that follows it, if any
FollowingUnit ==
    LET unitStart == RunEnd(CleanedAnswer, LeadingLiteralEnd, Whitespace)
        unitEnd == RunEnd(CleanedAnswer, unitStart, Letters \cup {"%"})
    IN  IF unitEnd > unitStart THEN Some(Slice(CleanedAnswer, unitStart, unitEnd))
        ELSE None
BeginsWithLiteral == CleanedAnswer # <<>> /\ CleanedAnswer[1] \in Digits

\* C26: when the cleaned answer begins with a numeric literal, value is that
\* literal without its thousands separators and units is the unit token that
\* follows it, else the metric's unit; when it does not, value is the whole
\* cleaned answer and units is unset
C26_ValueFromLeadingLiteral ==
    ppc = "done" =>
        IF BeginsWithLiteral
        THEN /\ parsedAnswer[1].value =
                    Some(RemoveCommas(Slice(CleanedAnswer, 0, LeadingLiteralEnd)))
             /\ parsedAnswer[1].units =
                    IF FollowingUnit # None THEN FollowingUnit ELSE metricUnit
        ELSE /\ parsedAnswer[1].value = Some(CleanedAnswer)
             /\ parsedAnswer[1].units = None

\* the progress calls of the metric loop
IsMetricReport(p) == ~InEmbeddingPhase(p)
MetricReports == SelectSeq(progress, IsMetricReport)
\* the callback of the metric at position i + 1 has been made, with its label
\* and i / n * 100, and the extractions of the metrics before it are appended
ReportedCurrentMetric ==
    /\ Len(MetricReports) = i + 1
    /\ MetricReports[i + 1] =
           [metric |-> priorityMetrics[i + 1].label,
            num |-> i * 100, den |-> Len(priorityMetrics)]
    /\ Len(extractions) = i

\* C27: the progress callback of the metric at position i of n carries its
\* label and i / n * 100; it is made after the extraction of the metric before
\* it was appended and before the retrieval (with its query embedding) and the
\* QA call of its own metric; the callbacks and the extractions follow the same
\* order, that of the selected metrics
C27_ProgressBeforeExtraction ==
    [][/\ (pc = "metrics" /\ Len(progress') > Len(progress)) =>
              /\ Len(extractions) = i
              /\ Len(MetricReports) = i
              /\ progress'[Len(progress')].metric = priorityMetrics[i + 1].label
              /\ progress'[Len(progress')].num * Len(priorityMetrics)
                     = i * 100 * progress'[Len(progress')].den
       /\ (pc = "retrieve" \/ pc = "extract") => ReportedCurrentMetric
       /\ (Len(qaLog') > Len(qaLog) \/ Len(caughtLog') > Len(caughtLog)) =>
              ReportedCurrentMetric
       /\ Len(extractions') > Len(extractions) =>
              /\ Len(extractions') = Len(MetricReports)
              /\ extractions'[Len(extractions')].metricId
                     = priorityMetrics[Len(extractions')].id
              /\ MetricReports[Len(extractions')].metric
                     = priorityMetrics[Len(extractions')].label]_vars

\* a returned run over two selected metrics, the QA model asked for both
C27_Witness ==
    /\ Returns
    /\ Len(priorityMetrics) = 2
    /\ Len(MetricReports) = 2
    /\ MetricReports[2].num = 100
    /\ MetricReports[2].den = 2
    /\ Len(qaLog) = 2
    /\ Len(extractions) = 2

\* the returned chunks whose window reached the end of the text
ReturnedAtTextEnd == {k \in DOMAIN returned[1] : returned[1][k].end = Len(text)}

\* C28: for 0 <= overlap < maxChars and a text longer than maxChars, the window
\* that reaches the end of the text is the last one emitted: at most one
\* returned chunk ends at the end of the text, and no returned chunk is a
\* proper suffix of the chunk returned before it
C28_NoWindowAfterTextEnd ==
    (0 <= overlap /\ overlap < maxChars /\ Len(text) > maxChars) =>
        /\ \A k \in 1..(Len(chunks) - 1) : chunks[k].end < Len(text)
        /\ cpc = "done" =>
               /\ Cardinality(ReturnedAtTextEnd) <= 1
               /\ \A k \in 1..(Len(returned[1]) - 1) :
                      ~(/\ returned[1][k + 1].to = returned[1][k].to
                        /\ returned[1][k + 1].from > returned[1][k].from)

\* C29: whatever the interleaving of the calls of initialize(), each model
\* pipeline is constructed at most once, and once more per initialization that
\* failed before; isInitialized implies that both models are loaded; and while
\* every call made so far has failed, isInitialized is false and a next call
\* constructs the pipelines again
C29_ModelsConstructedOnce ==
    /\ constructed.embedding <= 1 + failures
    /\ constructed.qa <= 1 + failures
    /\ isInitialized => (embeddingModel = "loaded" /\ qaModel = "loaded")
    /\ (\A c \in Callers : callpc[c] \in {"idle", "rejected"}) => ~isInitialized

\* the ids of the documents shown as completed
ShownCompleted ==
    {documentList[k].id :
        k \in {j \in DOMAIN documentList : documentList[j].status = "completed"}}
\* the ids of the documents the loop has taken up
TakenUp ==
    {loopDocuments[k].id :
        k \in 1..(IF dpc = "await" THEN docIndex + 1 ELSE docIndex)}

\* C30: the list handed to onDocumentsProcessed is not empty and holds only
\* documents that are shown as completed at the time of the call; a document
\* removed while pending is never processed, and a document dropped after
\* processDocuments started is never processed in that run
C30_HandedOverAreShownCompleted ==
    /\ handedOver # None =>
           /\ handedOver[1] # <<>>
           /\ \A k \in DOMAIN handedOver[1] :
                  /\ handedOver[1][k].status = "completed"
                  /\ handedOver[1][k].id \in ShownCompleted
    /\ removedPending \cap TakenUp = {}
    /\ \A k \in DOMAIN completedDocs : completedDocs[k].id \notin removedPending
    /\ \A k \in DOMAIN documentList :
           (\A j \in DOMAIN loopDocuments : loopDocuments[j].id # documentList[k].id)
               => documentList[k].status = "pending"

\* C17: normalizeText is idempotent: applied to its own result, it returns it
C17_NormalizeIdempotent ==
    npc = "twice" => twice = once

=============================================================================
